---------------------------- MODULE Spec2Model ----------------------------
(***************************************************************************)
(* A model of the OCR correction engine of mlxndr/mop.                     *)
(*                                                                         *)
(* Strings are sequences of one-character strings; offsets are 0-based as  *)
(* in the Python source.  Confidences are the source's decimal literals in *)
(* units of 1/Scale (0.85 is 8500); IEEE-754 rounding below that           *)
(* resolution is not represented.                                          *)
(***************************************************************************)
EXTENDS Integers, Sequences, FiniteSets, TLC

VARIABLES
    pc,             \* position of the modelled call
    \* OCRCorrector._apply_corrections
    markdown,       \* page['markdown']: the text handed over as `text`
    text,           \* local `text`
    errors,         \* argument `errors`
    errors_sorted,  \* local `errors_sorted`
    threshold,      \* argument `threshold` (config['auto_correct_threshold'])
    applied,        \* local `applied`
    idx,            \* number of iterations of `for error in errors_sorted` done
    \* OCRCorrector.process_file and the components it builds
    pages,          \* data['pages'], each page by its 'markdown'
    page_i,         \* number of pages processed
    modern_dict,    \* DictionaryChecker.modern_dict
    edit_distance_threshold,  \* config['edit_distance_threshold']
    unigrams,       \* NgramScorer.unigrams
    bigrams,        \* NgramScorer.bigrams
    trigrams,       \* NgramScorer.trigrams
    vocabulary,     \* EditDistanceCorrector.vocabulary
    entities,       \* EntityValidator.entities, in insertion order
    all_errors,     \* local `all_errors`
    corrections_applied,  \* local `corrections_applied`
    \* OCRCorrector._merge_suggestions
    list1,          \* parameter `list1`
    list2,          \* parameter `list2`
    merged,         \* the returned list
    \* FrequencyBasedCorrector
    error_candidates,      \* analysis['error_candidates']
    load_i,                \* number of iterations of `for candidate in error_candidates` done
    confidence,            \* local `confidence` of the last iteration, -1 if it left early
    confidence_threshold,  \* self.confidence_threshold
    corrections,           \* self.corrections: rare_word -> <<correct_word, confidence>>
    corrections_made,      \* self.corrections_made: <<word, corrected>> -> count
    \* HybridSpellChecker.get_correction
    arg_word,       \* parameter `word`
    word_counts,    \* self.word_counts
    suggest,        \* self.dict.suggest(word)
    words_checked,  \* self.words_checked
    words_invalid,  \* self.words_invalid
    correction,     \* the returned (word, confidence)
    \* check_word, find_confusion_patterns and find_similar_words on their own
    valid,          \* the value check_word returned
    similar_words,  \* the list find_similar_words returned
    confusion_list, \* the list find_confusion_patterns returned
    arg_context,    \* parameter `context_words` of generate_corrections
    edit_corrections,  \* the list generate_corrections returned
    \* OCRCorrector._write_statistics
    stats,          \* local `stats`
    \* DataBootstrapper.setup_historical_dictionary
    dict_file,      \* the lines of data_dir/websters_1828.txt, NoFile while it does not exist
    response,       \* what urlopen(CONFIG['websters_1828_url'], timeout=10) and response.read() give
    urlopen_calls,  \* number of calls of urllib.request.urlopen
    \* the three edit-distance functions on their own
    lev_s1,         \* parameter `s1`
    lev_s2,         \* parameter `s2`
    lev_distances,  \* what levenshtein_distance of the corrector, levenshtein_distance of
                    \* discover_ocr_errors and _edit_distance returned, in this order
    \* discover_ocr_errors.main
    high_freq_dict,        \* local `high_freq_dict`
    dict_by_first_letter,  \* local `dict_by_first_letter`
    \* HybridSpellChecker.correct_text
    corrections_in_text,   \* local `corrections_in_text`
    \* SpeakerIDAssigner
    speaker_registry,  \* self.speaker_registry, in the order of the dict
    speaker_metadata,  \* self.speaker_metadata
    name_variations,  \* self.name_variations, in the order of the dict
    ambiguous_cases,  \* self.ambiguous_cases
    next_id,  \* self.next_id
    speaker_stats,  \* self.stats of SpeakerIDAssigner
    speeches, \* the speeches of process_speeches that have their speaker_id
    \* speeches_from_pages
    seg_pages,  \* the argument `pages` of speeches_from_pages
    pages_sorted,  \* local `pages_sorted`
    page_k,  \* the number of pages of pages_sorted that the loop has taken
    paragraphs,  \* local `paragraphs`
    para_i,  \* the number of paragraphs of the page that the loop has taken
    current_house,  \* local `current_house`
    current_date_raw,  \* local `current_date_raw`
    current_date_iso,  \* local `current_date_iso`
    current_debate,  \* local `current_debate`
    current_speech,  \* local `current_speech`: <<>> for None, else the one speech
    seg_speeches  \* local `speeches` of speeches_from_pages

applyVars == <<markdown, text, errors, errors_sorted, threshold, applied, idx>>

configVars == <<modern_dict, edit_distance_threshold>>

corpusVars == <<unigrams, bigrams, trigrams, vocabulary, entities>>

fileVars == <<pages, page_i, all_errors, corrections_applied, stats>>

mergeVars == <<list1, list2, merged>>

freqVars == <<error_candidates, load_i, confidence, confidence_threshold,
              corrections, corrections_made>>

hybridVars == <<arg_word, word_counts, suggest, words_checked, words_invalid, correction>>

\* the variables of the other two correctors and of the merge on its own
toolVars == <<valid, similar_words, confusion_list, arg_context, edit_corrections>>

\* everything the corrector classes hold
correctorVars == <<applyVars, configVars, corpusVars, fileVars, mergeVars, freqVars,
                   hybridVars, toolVars>>

bootVars == <<dict_file, response, urlopen_calls>>

\* the variables of the programs beside the corrector
levVars == <<lev_s1, lev_s2, lev_distances>>

indexVars == <<high_freq_dict, dict_by_first_letter>>

tokenVars == <<corrections_in_text>>

speakerVars == <<speaker_registry, speaker_metadata, name_variations, ambiguous_cases, next_id, speaker_stats, speeches>>

segmentVars == <<seg_pages, pages_sorted, page_k, paragraphs, para_i, current_house, current_date_raw, current_date_iso, current_debate, current_speech, seg_speeches>>

extraVars == <<bootVars, levVars, indexVars, tokenVars, speakerVars, segmentVars>>

\* the variables of the other programs, seen from one of them
exceptBoot == <<levVars, indexVars, tokenVars, speakerVars, segmentVars>>

exceptLev == <<bootVars, indexVars, tokenVars, speakerVars, segmentVars>>

exceptIndex == <<bootVars, levVars, tokenVars, speakerVars, segmentVars>>

exceptToken == <<bootVars, levVars, indexVars, speakerVars, segmentVars>>

exceptSpeaker == <<bootVars, levVars, indexVars, tokenVars, segmentVars>>

exceptSegment == <<bootVars, levVars, indexVars, tokenVars, speakerVars>>

sideVars == <<mergeVars, freqVars, hybridVars, toolVars, extraVars>>

vars == <<pc, applyVars, configVars, corpusVars, fileVars, sideVars>>

----------------------------------------------------------------------------
(* Bounds of the model *)

MaxErrors == 2

MaxPages == 2

(* One confidence unit is 1/Scale *)
Scale == 10000

----------------------------------------------------------------------------
(* Python str methods, on sequences of characters *)

Lower == <<"a","b","c","d","e","f","g","h","i","j","k","l","m",
           "n","o","p","q","r","s","t","u","v","w","x","y","z">>

Upper == <<"A","B","C","D","E","F","G","H","I","J","K","L","M",
           "N","O","P","Q","R","S","T","U","V","W","X","Y","Z">>

IsLowerChar(c) == \E i \in 1..26 : Lower[i] = c

IsUpperChar(c) == \E i \in 1..26 : Upper[i] = c

IsAlpha(c) == IsLowerChar(c) \/ IsUpperChar(c)

ToUpperChar(c) ==
    IF IsLowerChar(c) THEN Upper[CHOOSE i \in 1..26 : Lower[i] = c] ELSE c

ToLowerChar(c) ==
    IF IsUpperChar(c) THEN Lower[CHOOSE i \in 1..26 : Upper[i] = c] ELSE c

str_upper(s) == [i \in 1..Len(s) |-> ToUpperChar(s[i])]

str_lower(s) == [i \in 1..Len(s) |-> ToLowerChar(s[i])]

\* str.isupper(): at least one cased character and no lower-case one
str_isupper(s) ==
    /\ \E i \in 1..Len(s) : IsUpperChar(s[i])
    /\ \A i \in 1..Len(s) : ~IsLowerChar(s[i])

\* str.islower(): at least one cased character and no upper-case one
str_islower(s) ==
    /\ \E i \in 1..Len(s) : IsLowerChar(s[i])
    /\ \A i \in 1..Len(s) : ~IsUpperChar(s[i])

\* str.capitalize(): first character upper-cased, ALL the others lower-cased
str_capitalize(s) ==
    [i \in 1..Len(s) |-> IF i = 1 THEN ToUpperChar(s[i]) ELSE ToLowerChar(s[i])]

Min(a, b) == IF a < b THEN a ELSE b

Max(a, b) == IF a < b THEN b ELSE a

Abs(a) == IF a < 0 THEN -a ELSE a

\* s[a:b] with Python's clamping of the two indices (0-based, b exclusive)
Slice(s, a, b) ==
    LET lo == Min(Max(a, 0), Len(s))
        hi == Min(Max(b, 0), Len(s))
    IN  IF hi <= lo THEN <<>> ELSE SubSeq(s, lo + 1, hi)

\* s[:b]
SliceTo(s, b) == Slice(s, 0, b)

\* s[a:]
SliceFrom(s, a) == Slice(s, a, Len(s))

----------------------------------------------------------------------------
(* OCRCorrector._tokenize_with_positions: re.finditer(r'\b[A-Za-z]+\b') *)

\* \w of the regular expression, over the characters the model uses
IsWordChar(c) == IsAlpha(c) \/ c \in {"0","1","2","3","4","5","6","7","8","9","_"}

\* a match [a, b): letters only, with a word boundary at both ends
IsTokenSpan(s, a, b) ==
    /\ 0 <= a /\ a < b /\ b <= Len(s)
    /\ \A i \in (a + 1)..b : IsAlpha(s[i])
    /\ (a = 0 \/ ~IsWordChar(s[a]))
    /\ (b = Len(s) \/ ~IsWordChar(s[b + 1]))

\* the tokens as <<word, position>> pairs, in the order of their positions
RECURSIVE TokensFrom(_, _)
TokensFrom(s, a) ==
    IF a >= Len(s) THEN <<>>
    ELSE IF \E b \in (a + 1)..Len(s) : IsTokenSpan(s, a, b)
         THEN LET b == CHOOSE b \in (a + 1)..Len(s) : IsTokenSpan(s, a, b)
              IN  <<<<Slice(s, a, b), a>>>> \o TokensFrom(s, b)
         ELSE TokensFrom(s, a + 1)

_tokenize_with_positions(s) == TokensFrom(s, 0)

----------------------------------------------------------------------------
(* levenshtein_distance: the fallback implementation, row by row *)

\* current_row of the inner loop, grown from [i + 1] by one entry per c2
RECURSIVE BuildRow(_, _, _, _)
BuildRow(c1, s2, previous_row, current_row) ==
    IF Len(current_row) = Len(s2) + 1 THEN current_row
    ELSE LET j == Len(current_row)
             insertions    == previous_row[j + 1] + 1
             deletions     == current_row[j] + 1
             substitutions == previous_row[j] + (IF c1 # s2[j] THEN 1 ELSE 0)
         IN  BuildRow(c1, s2, previous_row,
                      Append(current_row, Min(insertions, Min(deletions, substitutions))))

RECURSIVE LevRows(_, _, _, _)
LevRows(s1, s2, i, previous_row) ==
    IF i > Len(s1) THEN previous_row[Len(s2) + 1]
    ELSE LevRows(s1, s2, i + 1, BuildRow(s1[i], s2, previous_row, <<i>>))

levenshtein_distance(s1, s2) ==
    LET a == IF Len(s1) < Len(s2) THEN s2 ELSE s1
        b == IF Len(s1) < Len(s2) THEN s1 ELSE s2
    IN  IF Len(b) = 0 THEN Len(a)
        ELSE LevRows(a, b, 1, [j \in 1..(Len(b) + 1) |-> j - 1])

\* levenshtein_distance of discover_ocr_errors.py
discover_levenshtein_distance(s1, s2) ==
    LET a == IF Len(s1) < Len(s2) THEN s2 ELSE s1
        b == IF Len(s1) < Len(s2) THEN s1 ELSE s2
    IN  IF Len(b) = 0 THEN Len(a)
        ELSE LevRows(a, b, 1, [j \in 1..(Len(b) + 1) |-> j - 1])

\* a distance that compares the strings position by position
_edit_distance_positional(s1, s2) ==
    Cardinality({i \in 1..Min(Len(s1), Len(s2)) : s1[i] # s2[i]}) + Abs(Len(s1) - Len(s2))

\* HybridSpellChecker._edit_distance
_edit_distance(s1, s2) ==
    LET a == IF Len(s1) < Len(s2) THEN s2 ELSE s1
        b == IF Len(s1) < Len(s2) THEN s1 ELSE s2
    IN  IF Len(b) = 0 THEN Len(a)
        ELSE LevRows(a, b, 1, [j \in 1..(Len(b) + 1) |-> j - 1])

----------------------------------------------------------------------------
(* More of Python's str *)

\* the em dash U+2014 of the source is written "--"
EmDash == "--"

StartsWithAt(s, sub, a) ==
    /\ a + Len(sub) <= Len(s)
    /\ \A k \in 1..Len(sub) : s[a + k] = sub[k]

\* sub in s
Contains(s, sub) == \E a \in 0..(Len(s) - Len(sub)) : StartsWithAt(s, sub, a)

\* s.replace(old, new) for a non-empty old: every occurrence, left to right
RECURSIVE ReplaceFrom(_, _, _, _)
ReplaceFrom(s, old, new, a) ==
    IF a >= Len(s) THEN <<>>
    ELSE IF StartsWithAt(s, old, a)
         THEN new \o ReplaceFrom(s, old, new, a + Len(old))
         ELSE <<s[a + 1]>> \o ReplaceFrom(s, old, new, a + 1)

str_replace(s, old, new) == ReplaceFrom(s, old, new, 0)

\* s.rstrip(chars)
RECURSIVE str_rstrip(_, _)
str_rstrip(s, chars) ==
    IF s # <<>> /\ s[Len(s)] \in chars THEN str_rstrip(SubSeq(s, 1, Len(s) - 1), chars)
    ELSE s

----------------------------------------------------------------------------
(* Words and page texts of the model *)

the == <<"t","h","e">>

then == <<"t","h","e","n">>

teh == <<"t","e","h">>

can == <<"c","a","n">>

cau == <<"c","a","u">>

McAdam == <<"M","c","A","d","a","m">>

mcadam == <<"m","c","a","d","a","m">>

McAdarn == <<"M","c","A","d","a","r","n">>

he_cau_see_it == <<"H","e"," ","c","a","u"," ","s","e","e"," ","i","t",".">>

he_can_see_it == <<"H","e"," ","c","a","n"," ","s","e","e"," ","i","t",".">>

bourne == <<"b","o","u","r","n","e">>

borne == <<"b","o","r","n","e">>

Bourne == <<"B","o","u","r","n","e">>

BOURNE == <<"B","O","U","R","N","E">>

Bourne_bourne_BOURNE == Bourne \o <<" ">> \o bourne \o <<" ">> \o BOURNE \o <<".">>

McAdam_speaks == McAdam \o <<".", EmDash>>

McAdarn_speaks == McAdarn \o <<".", EmDash>>

TEH_Teh_teh == <<"T","E","H"," ","T","e","h"," ","t","e","h">>

see_it_teh == <<"s","e","e"," ","i","t"," ","t","e","h">>

see_it_the == <<"s","e","e"," ","i","t"," ","t","h","e">>

see_it_tea == <<"s","e","e"," ","i","t"," ","t","e","a">>

----------------------------------------------------------------------------
(* DictionaryChecker *)

\* config['preserve_historical_spellings'] (the entries the model's words
\* can be compared with)
preserved_spellings ==
    { <<"s","h","e","w">>, <<"h","o","n","o","u","r">> }

\* data/parliamentary_lexicon.txt as _load_dictionaries reads it
parliamentary_terms == { McAdam }

\* data/websters_1828.txt: the fallback list of setup_historical_dictionary
\* (lower-cased by _load_dictionaries)
historical_words ==
    { <<"s","h","e","w">>, <<"p","u","b","l","i","c","k">>, <<"h","o","n","o","u","r">> }

\* the word forms enchant's en_US dictionary accepts, among the model's words
ModernWords ==
    { <<"H","e">>, <<"h","e">>, <<"s","e","e">>, <<"i","t">>, can, the, then,
      <<"T","h","e">>, <<"T","H","E">>, <<"t","e","a">> }

TrailingPunctuation == {".", ",", ";", ":", "!", "?", EmDash}

Digits == {"0","1","2","3","4","5","6","7","8","9"}

RomanNumeralChars == {"I","V","X","L","C","D","M"}

\* re.match(r'^\d+$', w) or re.match(r'^[IVXLCDM]+$', w)
IsNumeral(w) ==
    /\ w # <<>>
    /\ \/ \A i \in 1..Len(w) : w[i] \in Digits
       \/ \A i \in 1..Len(w) : w[i] \in RomanNumeralChars

\* a word counts as accepted when the dictionary is missing or the lookup raises
ModernDictAcceptsUnlessBroken(clean_word) ==
    \/ ~modern_dict.loaded
    \/ clean_word = <<>>
    \/ clean_word \in modern_dict.words

\* modern_dict.check(clean_word) inside try/except: enchant raises on an
\* empty word, and the except clause passes on
ModernDictAccepts(clean_word) ==
    /\ modern_dict.loaded
    /\ clean_word # <<>>
    /\ clean_word \in modern_dict.words

\* line 311 on the upper-cased form
check_word_upper_terms(word) ==
    IF Len(word) < 2 THEN TRUE
    ELSE LET clean_word == str_rstrip(word, TrailingPunctuation)
         IN  \/ str_lower(clean_word) \in preserved_spellings
             \/ str_upper(clean_word) \in parliamentary_terms
             \/ IsNumeral(clean_word)
             \/ ModernDictAccepts(clean_word)
             \/ str_lower(clean_word) \in historical_words

check_word(word) ==
    IF Len(word) < 2 THEN TRUE
    ELSE LET clean_word == str_rstrip(word, TrailingPunctuation)
         IN  \/ str_lower(clean_word) \in preserved_spellings
             \/ clean_word \in parliamentary_terms
             \/ IsNumeral(clean_word)
             \/ ModernDictAccepts(clean_word)
             \/ str_lower(clean_word) \in historical_words

\* a call of check_word
CheckWord ==
    /\ pc = "ask"
    /\ valid' = check_word(arg_word)
    /\ pc' = "answered"
    /\ UNCHANGED <<similar_words, confusion_list, arg_context, edit_corrections, applyVars, configVars, corpusVars,
                   fileVars,
                   mergeVars, freqVars, hybridVars, extraVars>>

----------------------------------------------------------------------------
(* ConfusionDetector *)

\* CONFIG['character_confusion_pairs'] in the order of the dict's keys
character_confusion_pairs ==
    << <<<<"X">>, <<<<"K">>>>>>,
       <<<<"r","n">>, <<<<"m">>>>>>,
       <<<<"c","l">>, <<<<"d">>>>>>,
       <<<<"v","v">>, <<<<"w">>>>>>,
       <<<<"u">>, <<<<"n">>>>>>,
       <<<<"i","i">>, <<<<"u">>>>>>,
       <<<<"a","u","d">>, <<<<"a","n","d">>>>>>,
       <<<<"a","a","d">>, <<<<"a","n","d">>>>>>,
       <<<<"c","a","u">>, <<<<"c","a","n">>>>>>,
       <<<<"i","u">>, <<<<"i","n">>>>>>,
       <<<<"t","h","a","u">>, <<<<"t","h","a","n">>>>>>,
       <<<<"b","n","t">>, <<<<"b","u","t">>>>>>,
       <<<<"t","i","i","e">>, <<<<"t","h","e">>>>>>,
       <<<<"t","l","i","e">>, <<<<"t","h","e">>>>>> >>

ConfCaseMatch == 8500

ConfCaseMismatch == 7500

\* the two confidences of line 357 exchanged
ConfusionConfidenceSwapped(wrong, right) ==
    IF str_isupper(wrong) = str_isupper(right) THEN ConfCaseMismatch ELSE ConfCaseMatch

\* line 357
ConfusionConfidence(wrong, right) ==
    IF str_isupper(wrong) = str_isupper(right) THEN ConfCaseMatch ELSE ConfCaseMismatch

\* the inner loop without the dictionary check of line 355
RECURSIVE ConfusionsOfEntryUnchecked(_, _, _)
ConfusionsOfEntryUnchecked(word, wrong, rights) ==
    IF rights = <<>> THEN <<>>
    ELSE LET candidate == str_replace(word, wrong, Head(rights))
             here == IF candidate # word
                     THEN <<<<candidate, ConfusionConfidence(wrong, Head(rights))>>>>
                     ELSE <<>>
         IN  here \o ConfusionsOfEntryUnchecked(word, wrong, Tail(rights))

\* the inner loop `for right in rights` for one table entry
RECURSIVE ConfusionsOfEntry(_, _, _)
ConfusionsOfEntry(word, wrong, rights) ==
    IF rights = <<>> THEN <<>>
    ELSE LET candidate == str_replace(word, wrong, Head(rights))
             here == IF candidate # word /\ check_word(candidate)
                     THEN <<<<candidate, ConfusionConfidence(wrong, Head(rights))>>>>
                     ELSE <<>>
         IN  here \o ConfusionsOfEntry(word, wrong, Tail(rights))

RECURSIVE ConfusionsFrom(_, _)
ConfusionsFrom(word, k) ==
    IF k > Len(character_confusion_pairs) THEN <<>>
    ELSE LET wrong  == character_confusion_pairs[k][1]
             rights == character_confusion_pairs[k][2]
         IN  (IF Contains(word, wrong) THEN ConfusionsOfEntry(word, wrong, rights) ELSE <<>>)
             \o ConfusionsFrom(word, k + 1)

find_confusion_patterns(word) == ConfusionsFrom(word, 1)

\* a call of find_confusion_patterns
FindConfusionPatterns ==
    /\ pc = "ask"
    /\ confusion_list' = find_confusion_patterns(arg_word)
    /\ pc' = "found"
    /\ UNCHANGED <<valid, similar_words, arg_context, edit_corrections, applyVars, configVars, corpusVars, fileVars,
                   mergeVars, freqVars, hybridVars, extraVars>>

----------------------------------------------------------------------------
(* NgramScorer *)

\* _tokenize: re.findall(r'\b[A-Za-z]+\b', text.lower())
NgramTokenize(t) ==
    LET toks == _tokenize_with_positions(str_lower(t))
    IN  [i \in 1..Len(toks) |-> toks[i][1]]

\* the n-grams of one word list, with repetition, as a set of <<start, gram>>
GramsOf(ws, n) == { <<i, SubSeq(ws, i, i + n - 1)>> : i \in 1..(Len(ws) - n + 1) }

\* a Counter over the n-grams of all pages
RECURSIVE CountGram(_, _, _)
CountGram(ps, n, gram) ==
    IF ps = <<>> THEN 0
    ELSE Cardinality({ g \in GramsOf(NgramTokenize(Head(ps)), n) : g[2] = gram })
         + CountGram(Tail(ps), n, gram)

GramKeys(ps, n) ==
    UNION { { g[2] : g \in GramsOf(NgramTokenize(ps[p]), n) } : p \in 1..Len(ps) }

\* _train
TrainCounter(ps, n) == [gram \in GramKeys(ps, n) |-> CountGram(ps, n, gram)]

\* Counter.get(key, 0)
Get(counter, key) == IF key \in DOMAIN counter THEN counter[key] ELSE 0

\* score_trigram returns log(prob), prob = (trigram_count + 1) /
\* (bigram_count + len(unigrams)); the model keeps prob as <<num, den>>
TrigramProb(w1, w2, w3) ==
    << Get(trigrams, <<w1, w2, w3>>) + 1,
       Get(bigrams, <<w1, w2>>) + Cardinality(DOMAIN unigrams) >>

\* floor(e^15): log(prob) < min_ngram_score = -15.0 iff den > num * e^15
MinNgramRatio == 3269017

\* score < self.config['min_ngram_score']
LowScore(prob) == prob[2] > prob[1] * MinNgramRatio

\* score_sequence: the 0-based indices i >= 2 of the low-scoring words
score_sequence(words) ==
    SelectSeq([k \in 1..Max(Len(words) - 2, 0) |-> k + 1],
              LAMBDA i : LowScore(TrigramProb(words[i - 1], words[i], words[i + 1])))

----------------------------------------------------------------------------
(* EditDistanceCorrector *)

DictionaryWeight == 4000

DistanceWeight == 3000

ContextWeight == 3000

\* floor(Scale * ln(num / den) / 5) for the count ratios the model can meet
LogRatioOverFive(num, den) ==
    CASE num * 10 = den * 20 -> 1386
      [] num * 10 = den * 30 -> 2197
      [] num * 10 = den * 15 -> 810
      [] num * 10 = den * 40 -> 2772
      [] num * 3 = den * 4   -> 575
      [] num * 10 = den * 25 -> 1832
      [] num * 3 = den * 5   -> 1021
      [] num * 4 = den * 5   -> 446
      [] num * 5 = den * 6   -> 364

\* e^1.5 = 4.48168...: min(log ratio / 5, 0.3) is 0.3 from there on
Improvement(cand_prob, orig_prob) ==
    LET num == cand_prob[1] * orig_prob[2]
        den == orig_prob[1] * cand_prob[2]
    IN  IF num * 100000 >= den * 448169 THEN ContextWeight
        ELSE LogRatioOverFive(num, den)

\* candidate_score > original_score
ScoresHigher(cand_prob, orig_prob) ==
    cand_prob[1] * orig_prob[2] > orig_prob[1] * cand_prob[2]

_calculate_confidence(original, candidate, context, edit_dist) ==
    LET dictionary == IF check_word(candidate) THEN DictionaryWeight ELSE 0
        distance   == (DistanceWeight * (edit_distance_threshold - edit_dist))
                          \div edit_distance_threshold
        n          == Len(context)
        orig_prob  == TrigramProb(context[n - 1], context[n], str_lower(original))
        cand_prob  == TrigramProb(context[n - 1], context[n], str_lower(candidate))
        ngram      == IF n >= 2 /\ ScoresHigher(cand_prob, orig_prob)
                      THEN Improvement(cand_prob, orig_prob)
                      ELSE 0
    IN  Min(dictionary + distance + ngram, Scale)

\* line 530 with the bound one too far
CandidateWordsOneFurther(word) ==
    { v \in vocabulary :
        /\ ~(Len(v) - Len(word) > edit_distance_threshold)
        /\ ~(Len(word) - Len(v) > edit_distance_threshold)
        /\ levenshtein_distance(str_lower(word), str_lower(v)) <= edit_distance_threshold + 1
        /\ levenshtein_distance(str_lower(word), str_lower(v)) > 0 }

\* the vocabulary words that pass the length filter and 0 < dist <= threshold
CandidateWords(word) ==
    { v \in vocabulary :
        /\ ~(Len(v) - Len(word) > edit_distance_threshold)
        /\ ~(Len(word) - Len(v) > edit_distance_threshold)
        /\ levenshtein_distance(str_lower(word), str_lower(v)) <= edit_distance_threshold
        /\ levenshtein_distance(str_lower(word), str_lower(v)) > 0 }

\* sorted(..., key=lambda x: x[1], reverse=True): stable
RECURSIVE InsertByConfidence(_, _)
InsertByConfidence(x, s) ==
    IF s = <<>> THEN <<x>>
    ELSE IF Head(s)[2] > x[2]
         THEN <<Head(s)>> \o InsertByConfidence(x, Tail(s))
         ELSE <<x>> \o s

RECURSIVE SortByConfidenceReverse(_)
SortByConfidenceReverse(s) ==
    IF s = <<>> THEN <<>>
    ELSE InsertByConfidence(Head(s), SortByConfidenceReverse(Tail(s)))

\* every order in which a set can be iterated
RECURSIVE Orderings(_)
Orderings(S) ==
    IF S = {} THEN {<<>>}
    ELSE UNION { { <<x>> \o rest : rest \in Orderings(S \ {x}) } : x \in S }

TopCandidates == 5

\* the candidates of lines 527-533, each with its confidence
ScoredCandidates(word, context_words) ==
    { <<vocab_word,
        _calculate_confidence(word, vocab_word, context_words,
            levenshtein_distance(str_lower(word), str_lower(vocab_word)))>> :
      vocab_word \in CandidateWords(word) }

\* the sort of line 538 left out: the first five in iteration order
generate_corrections_unsorted(word, context_words) ==
    { SliceTo(order, TopCandidates) :
      order \in Orderings(ScoredCandidates(word, context_words)) }

\* generate_corrections iterates a set, whose order Python does not fix: the
\* result is any of the lists that some iteration order gives
generate_corrections(word, context_words) ==
    { SliceTo(SortByConfidenceReverse(order), TopCandidates) :
      order \in Orderings(ScoredCandidates(word, context_words)) }

\* the words and contexts generate_corrections is called with on its own
GenerateWords == { <<"t","e","h">>, <<"T","e","h">>, <<"t","h","e">> }

GenerateContexts == { <<>>, << <<"s","e","e">>, <<"i","t">> >> }

\* a call of generate_corrections once the vocabulary is built
GenerateCorrections ==
    /\ pc = "page"
    /\ page_i = 0
    /\ arg_word' \in GenerateWords
    /\ arg_context' \in GenerateContexts
    /\ edit_corrections' \in generate_corrections(arg_word', arg_context')
    /\ pc' = "generated"
    /\ UNCHANGED <<valid, similar_words, confusion_list, word_counts, suggest,
                   words_checked, words_invalid, correction, applyVars, configVars,
                   corpusVars, fileVars, mergeVars, freqVars, extraVars>>

----------------------------------------------------------------------------
(* OCRCorrector._merge_suggestions *)

\* the dict `suggestions` as a sequence of <<word, conf>> in insertion order
RECURSIVE MergeInto(_, _)
MergeInto(suggestions, items) ==
    IF items = <<>> THEN suggestions
    ELSE LET word == Head(items)[1]
             conf == Head(items)[2]
             seen == \E k \in 1..Len(suggestions) : suggestions[k][1] = word
             next == IF ~seen THEN Append(suggestions, <<word, conf>>)
                     ELSE [k \in 1..Len(suggestions) |->
                             IF suggestions[k][1] = word /\ conf > suggestions[k][2]
                             THEN <<word, conf>> ELSE suggestions[k]]
         IN  MergeInto(next, Tail(items))

\* the words of list1 first, a later pair of a word ignored
RECURSIVE MergeKeepFirst(_, _)
MergeKeepFirst(kept, items) ==
    IF items = <<>> THEN kept
    ELSE IF \E k \in 1..Len(kept) : kept[k][1] = Head(items)[1]
         THEN MergeKeepFirst(kept, Tail(items))
         ELSE MergeKeepFirst(Append(kept, Head(items)), Tail(items))

\* lines 792-796 without the comparison `conf > suggestions[word]`
_merge_suggestions_first(l1, l2) ==
    SortByConfidenceReverse(MergeKeepFirst(<<>>, l1 \o l2))

_merge_suggestions(l1, l2) == SortByConfidenceReverse(MergeInto(<<>>, l1 \o l2))

\* the call
MergeCall ==
    /\ pc = "merge"
    /\ merged' = _merge_suggestions(list1, list2)
    /\ pc' = "merged"
    /\ UNCHANGED <<list1, list2, applyVars, configVars, corpusVars, fileVars,
                   freqVars, hybridVars, toolVars, extraVars>>

----------------------------------------------------------------------------
(* EntityValidator *)

SpeakerPrefixes ==
    { <<"T","h","e"," ">>, <<"L","O","R","D"," ">>, <<"E","A","R","L"," ">>,
      <<"D","U","K","E"," ">>, <<"M","r","."," ">>, <<"S","i","r"," ">>,
      <<"C","O","L","O","N","E","L"," ">>, <<"M","A","J","O","R"," ">>,
      <<"C","A","P","T","A","I","N"," ">> }

\* [A-Za-z\s\-]
IsNameChar(c) == IsAlpha(c) \/ c = " " \/ c = "-"

\* [A-Z][A-Za-z\s\-]+\.— tried at offset a: the offset where the match ends,
\* or -1.  The class excludes '.', so only the longest run can be followed by it
NameMatchEnd(s, a) ==
    IF a + 1 <= Len(s) /\ IsUpperChar(s[a + 1])
    THEN LET e == CHOOSE e \in (a + 1)..Len(s) :
                      /\ \A k \in (a + 2)..e : IsNameChar(s[k])
                      /\ (e = Len(s) \/ ~IsNameChar(s[e + 1]))
         IN  IF e >= a + 2 /\ e + 2 <= Len(s) /\ s[e + 1] = "." /\ s[e + 2] = EmDash
             THEN e + 2 ELSE -1
    ELSE -1

\* speaker_pattern.finditer(markdown): the pattern starts with ^ and is
\* compiled without re.MULTILINE, so it matches at offset 0 or not at all
SpeakerMatchEnd(s) ==
    IF \E p \in SpeakerPrefixes : StartsWithAt(s, p, 0) /\ NameMatchEnd(s, Len(p)) >= 0
    THEN NameMatchEnd(s, Len(CHOOSE p \in SpeakerPrefixes :
                                 StartsWithAt(s, p, 0) /\ NameMatchEnd(s, Len(p)) >= 0))
    ELSE NameMatchEnd(s, 0)

HasSpeaker(s) == SpeakerMatchEnd(s) >= 0

\* match.group(0).rstrip('.—')
SpeakerOf(s) == str_rstrip(SliceTo(s, SpeakerMatchEnd(s)), {".", EmDash})

\* speaker_counts, and its keys in insertion order
SpeakerCount(ps, speaker) ==
    Cardinality({ p \in 1..Len(ps) : HasSpeaker(ps[p]) /\ SpeakerOf(ps[p]) = speaker })

RECURSIVE SpeakerKeys(_, _)
SpeakerKeys(ps, seen) ==
    IF ps = <<>> THEN seen
    ELSE IF HasSpeaker(Head(ps))
              /\ ~\E k \in 1..Len(seen) : seen[k] = SpeakerOf(Head(ps))
         THEN SpeakerKeys(Tail(ps), Append(seen, SpeakerOf(Head(ps))))
         ELSE SpeakerKeys(Tail(ps), seen)

Range(s) == { s[k] : k \in 1..Len(s) }

VariantsOf(ps, speaker) ==
    { s \in Range(SpeakerKeys(ps, <<>>)) :
        levenshtein_distance(str_lower(s), str_lower(speaker)) <= 2 }

\* the values max(variants, key=...) can return: a most frequent variant
MostCommon(ps, variants) ==
    { s \in variants : \A o \in variants : SpeakerCount(ps, o) <= SpeakerCount(ps, s) }

\* max() returns the first maximum in the set's iteration order, which Python
\* does not fix; equal sets built alike are iterated alike, so the choice is a
\* function of the set
CanonicalChoices(ps) ==
    LET sets == { VariantsOf(ps, s) : s \in Range(SpeakerKeys(ps, <<>>)) }
    IN  { f \in [sets -> Range(SpeakerKeys(ps, <<>>))] :
            \A v \in sets : f[v] \in MostCommon(ps, v) }

\* the loop `for speaker, count in speaker_counts.items()`
RECURSIVE BuildEntities(_, _, _, _)
BuildEntities(ps, keys, canonical_of, ents) ==
    IF keys = <<>> THEN ents
    ELSE LET variants  == VariantsOf(ps, Head(keys))
             canonical == canonical_of[variants]
         IN  IF \E k \in 1..Len(ents) : ents[k].canonical = canonical
             THEN BuildEntities(ps, Tail(keys), canonical_of, ents)
             ELSE BuildEntities(ps, Tail(keys), canonical_of,
                      Append(ents, [canonical |-> canonical, variants |-> variants]))

extract_entities(ps, canonical_of) ==
    BuildEntities(ps, SpeakerKeys(ps, <<>>), canonical_of, <<>>)

EntityConfidence == 7000

NewError(page_idx, word, pos, types, sugg) ==
    [page_index |-> page_idx, original_word |-> word, position |-> pos,
     error_types |-> types, suggested_corrections |-> sugg]

\* find_inconsistencies: one error per entity that lists the speaker as a
\* variant other than its canonical form
find_inconsistencies(md, page_idx) ==
    IF ~HasSpeaker(md) THEN <<>>
    ELSE LET speaker == SpeakerOf(md)
             hits == SelectSeq(entities,
                         LAMBDA ent : speaker \in ent.variants /\ speaker # ent.canonical
                                      /\ Cardinality(ent.variants) > 1)
         IN  [k \in 1..Len(hits) |->
                 NewError(page_idx, speaker, 0, <<"entity_inconsistency">>,
                          <<<<hits[k].canonical, EntityConfidence>>>>)]

----------------------------------------------------------------------------
(* StructuralValidator *)

LinePrefix == 50

\* validate_structure, for a page of one line (the model's texts hold no
\* newline): the line holds '.—' and the speaker pattern does not match it
validate_structure(md, page_idx) ==
    IF Contains(md, <<".", EmDash>>) /\ ~HasSpeaker(md)
    THEN << NewError(page_idx, SliceTo(md, LinePrefix), 0,
                     <<"structural_malformation">>, <<>>) >>
    ELSE <<>>

----------------------------------------------------------------------------
(* OCRCorrector._process_page *)

ContextWindow == 3

\* _get_context_words: the words before the FIRST occurrence of target
_get_context_words(all_words, target) ==
    IF \E k \in 1..Len(all_words) : all_words[k] = target
    THEN LET i == (CHOOSE k \in 1..Len(all_words) :
                      /\ all_words[k] = target
                      /\ \A j \in 1..(k - 1) : all_words[j] # target) - 1
         IN  [k \in 1..(i - Max(0, i - ContextWindow)) |->
                 str_lower(all_words[Max(0, i - ContextWindow) + k])]
    ELSE <<>>

\* METHOD 1 and METHOD 2: the unknown words, enriched with confusion patterns
UnknownWordErrors(words_with_pos, page_idx) ==
    LET unknown == SelectSeq(words_with_pos, LAMBDA wp : ~check_word(wp[1]))
    IN  [k \in 1..Len(unknown) |->
            LET confusions == find_confusion_patterns(unknown[k][1])
            IN  NewError(page_idx, unknown[k][1], unknown[k][2],
                    IF confusions # <<>> THEN <<"unknown_word", "confusion_pattern">>
                                         ELSE <<"unknown_word">>,
                    confusions)]

\* METHOD 4: the low-scoring words
LowNgramErrors(words_with_pos, page_idx) ==
    LET words == [k \in 1..Len(words_with_pos) |-> words_with_pos[k][1]]
        low   == score_sequence(words)
    IN  [k \in 1..Len(low) |->
            NewError(page_idx, words[low[k] + 1], words_with_pos[low[k] + 1][2],
                     <<"low_ngram_score">>, <<>>)]

\* METHOD 5 skipping the errors that have a suggestion already
EnrichWithEditsIfNone(error, words) ==
    IF error.suggested_corrections # <<>> THEN {error}
    ELSE { [error EXCEPT !.suggested_corrections = _merge_suggestions(@, edits)] :
             edits \in generate_corrections(error.original_word,
                           _get_context_words(words, error.original_word)) }

\* METHOD 5 for one error: the lists the merge can give
EnrichWithEdits(error, words) ==
    { [error EXCEPT !.suggested_corrections = _merge_suggestions(@, edits)] :
        edits \in generate_corrections(error.original_word,
                      _get_context_words(words, error.original_word)) }

RECURSIVE EnrichAll(_, _)
EnrichAll(es, words) ==
    IF es = <<>> THEN {<<>>}
    ELSE { <<x>> \o r : x \in EnrichWithEdits(Head(es), words), r \in EnrichAll(Tail(es), words) }

\* the lists of errors _process_page can return for a page
_process_page(md, page_idx) ==
    LET words_with_pos == _tokenize_with_positions(md)
        words == [k \in 1..Len(words_with_pos) |-> words_with_pos[k][1]]
        found == UnknownWordErrors(words_with_pos, page_idx)
                 \o find_inconsistencies(md, page_idx)
                 \o LowNgramErrors(words_with_pos, page_idx)
    IN  { enriched \o validate_structure(md, page_idx) : enriched \in EnrichAll(found, words) }

----------------------------------------------------------------------------
(* OCRCorrector._apply_corrections *)

\* sorted(errors, key=lambda e: e.position, reverse=True): stable, so errors
\* at one position keep the order they have in `errors`
RECURSIVE InsertByPosition(_, _)
InsertByPosition(e, s) ==
    IF s = <<>> THEN <<e>>
    ELSE IF Head(s).position > e.position
         THEN <<Head(s)>> \o InsertByPosition(e, Tail(s))
         ELSE <<e>> \o s

\* reverse=True left out: ascending, stable
RECURSIVE InsertByPositionAscending(_, _)
InsertByPositionAscending(e, s) ==
    IF s = <<>> THEN <<e>>
    ELSE IF Head(s).position < e.position
         THEN <<Head(s)>> \o InsertByPositionAscending(e, Tail(s))
         ELSE <<e>> \o s

RECURSIVE SortByPositionAscending(_)
SortByPositionAscending(es) ==
    IF es = <<>> THEN <<>>
    ELSE InsertByPositionAscending(Head(es), SortByPositionAscending(Tail(es)))

RECURSIVE SortByPositionReverse(_)
SortByPositionReverse(es) ==
    IF es = <<>> THEN <<>>
    ELSE InsertByPosition(Head(es), SortByPositionReverse(Tail(es)))

\* the threshold test of line 810 left out
ShouldApplyAnySuggestion(error, th) == error.suggested_corrections # <<>>

\* lines 807-810: the error has a suggestion and its first one reaches threshold
ShouldApply(error, th) ==
    /\ error.suggested_corrections # <<>>
    /\ error.suggested_corrections[1][2] >= th

\* lines 815-819: the capitalization pattern of the original word
PreserveCapitalization(original_word, best_correction) ==
    IF str_isupper(original_word) THEN str_upper(best_correction)
    ELSE IF IsUpperChar(original_word[1]) THEN str_capitalize(best_correction)
    ELSE best_correction

\* line 822: text[:pos] + best_correction + text[pos + word_len:]
Splice(t, pos, word_len, best_correction) ==
    SliceTo(t, pos) \o best_correction \o SliceFrom(t, pos + word_len)

\* the call: the arguments are bound and the errors sorted (lines 800-805)
ApplyCall ==
    /\ pc = "call"
    /\ text' = markdown
    /\ errors_sorted' = SortByPositionReverse(errors)
    /\ applied' = 0
    /\ idx' = 0
    /\ pc' = "loop"
    /\ UNCHANGED <<markdown, errors, threshold, configVars, corpusVars, fileVars, sideVars>>

\* one iteration of `for error in errors_sorted` (lines 806-823)
ApplyStep ==
    /\ pc = "loop"
    /\ idx < Len(errors_sorted)
    /\ LET error == errors_sorted[idx + 1]
       IN  IF ShouldApply(error, threshold)
           THEN /\ text' = Splice(text, error.position, Len(error.original_word),
                                  PreserveCapitalization(error.original_word,
                                      error.suggested_corrections[1][1]))
                /\ applied' = applied + 1
           ELSE UNCHANGED <<text, applied>>
    /\ idx' = idx + 1
    /\ UNCHANGED <<pc, markdown, errors, errors_sorted, threshold,
                   configVars, corpusVars, fileVars, sideVars>>

\* return text, applied (line 825)
ApplyReturn ==
    /\ pc = "loop"
    /\ idx = Len(errors_sorted)
    /\ pc' = "done"
    /\ UNCHANGED <<applyVars, configVars, corpusVars, fileVars, sideVars>>

----------------------------------------------------------------------------
(* OCRCorrector.process_file *)

\* a page that has no 'markdown' key
NoMarkdown == <<"no markdown">>

\* page.get('markdown', '')
get_markdown(page) == IF page = NoMarkdown THEN <<>> ELSE page

Markdowns(ps) == [k \in 1..Len(ps) |-> get_markdown(ps[k])]

\* lines 650-658: the components are built from all the pages
InitializeComponents ==
    /\ pc = "init"
    /\ unigrams' = TrainCounter(Markdowns(pages), 1)
    /\ bigrams' = TrainCounter(Markdowns(pages), 2)
    /\ trigrams' = TrainCounter(Markdowns(pages), 3)
    /\ vocabulary' = { g[1] : g \in GramKeys(Markdowns(pages), 1) }
    /\ \E canonical_of \in CanonicalChoices(Markdowns(pages)) :
           entities' = extract_entities(Markdowns(pages), canonical_of)
    /\ pc' = "page"
    /\ UNCHANGED <<applyVars, configVars, fileVars, sideVars>>

\* lines 666-675: page_errors = self._process_page(page), and page['markdown']
\* is read for the call of _apply_corrections: a KeyError when the page has none
ProcessPage ==
    /\ pc = "page"
    /\ page_i < Len(pages)
    /\ \E page_errors \in _process_page(get_markdown(pages[page_i + 1]), page_i) :
           /\ errors' = page_errors
           /\ all_errors' = all_errors \o page_errors
    /\ IF pages[page_i + 1] = NoMarkdown
       THEN /\ pc' = "raised"
            /\ UNCHANGED markdown
       ELSE /\ pc' = "call"
            /\ markdown' = pages[page_i + 1]
    /\ UNCHANGED <<text, errors_sorted, threshold, applied, idx,
                   configVars, corpusVars, pages, page_i, corrections_applied, stats,
                   sideVars>>

\* the page is stored and the n-gram model trained again on the corrected pages
StorePageRetrain ==
    /\ pc = "done"
    /\ pages' = [pages EXCEPT ![page_i + 1] = text]
    /\ corrections_applied' = corrections_applied + applied
    /\ page_i' = page_i + 1
    /\ pc' = "page"
    /\ unigrams' = TrainCounter(pages', 1)
    /\ bigrams' = TrainCounter(pages', 2)
    /\ trigrams' = TrainCounter(pages', 3)
    /\ vocabulary' = { g[1] : g \in GramKeys(pages', 1) }
    /\ UNCHANGED <<applyVars, configVars, entities, all_errors, stats, sideVars>>

\* lines 674-679: page['markdown'], applied = ...; corrections_applied += applied
StorePage ==
    /\ pc = "done"
    /\ pages' = [pages EXCEPT ![page_i + 1] = text]
    /\ corrections_applied' = corrections_applied + applied
    /\ page_i' = page_i + 1
    /\ pc' = "page"
    /\ UNCHANGED <<applyVars, configVars, corpusVars, all_errors, stats, sideVars>>

\* counter[key] += 1, the Counter being the list of its <<key, count>> in
\* insertion order
Tally(counter, key) ==
    IF \E k \in 1..Len(counter) : counter[k][1] = key
    THEN [k \in 1..Len(counter) |->
             IF counter[k][1] = key THEN <<key, counter[k][2] + 1>> ELSE counter[k]]
    ELSE Append(counter, <<key, 1>>)

RECURSIVE TallyAll(_, _)
TallyAll(counter, keys) ==
    IF keys = <<>> THEN counter ELSE TallyAll(Tally(counter, Head(keys)), Tail(keys))

\* the error types of the errors, one after another
RECURSIVE TypesOf(_)
TypesOf(es) == IF es = <<>> THEN <<>> ELSE Head(es).error_types \o TypesOf(Tail(es))

\* dict(stats['errors_by_type'])
errors_by_type(es) ==
    LET counter == TallyAll(<<>>, TypesOf(es))
    IN  [t \in { counter[k][1] : k \in 1..Len(counter) } |->
            counter[CHOOSE k \in 1..Len(counter) : counter[k][1] = t][2]]

TopErrorsLimit == 20

\* Counter.most_common(n): sorted by count, highest first, equal counts in
\* insertion order, and the first n of them
most_common(counter, n) == SliceTo(SortByConfidenceReverse(counter), n)

\* stats['top_errors']: the (original, suggested, count) of the pairs
top_errors(es) ==
    LET with_suggestion == SelectSeq(es, LAMBDA e : e.suggested_corrections # <<>>)
        keys == [k \in 1..Len(with_suggestion) |->
                    <<with_suggestion[k].original_word,
                      with_suggestion[k].suggested_corrections[1][1]>>]
    IN  most_common(TallyAll(<<>>, keys), TopErrorsLimit)

\* stats['entity_variants']: list(entity.variants) lists a set, in an order
\* Python does not fix
entity_variants ==
    LET many == { k \in 1..Len(entities) : Cardinality(entities[k].variants) > 1 }
        last(c) == CHOOSE k \in many :
                       /\ entities[k].canonical = c
                       /\ \A j \in many : entities[j].canonical = c => j <= k
    IN  { f \in [{ entities[k].canonical : k \in many } ->
                    UNION { Orderings(entities[k].variants) : k \in many }] :
            \A c \in DOMAIN f : f[c] \in Orderings(entities[last(c)].variants) }

\* lines 681-694: the loop is over and the outputs are written; of the
\* outputs the model keeps the statistics (_write_statistics)
WriteOutputs ==
    /\ pc = "page"
    /\ page_i = Len(pages)
    /\ \E variants \in entity_variants :
           stats' = [total_errors_found |-> Len(all_errors),
                     errors_by_type |-> errors_by_type(all_errors),
                     top_errors |-> top_errors(all_errors),
                     entity_variants |-> variants]
    /\ pc' = "complete"
    /\ UNCHANGED <<applyVars, configVars, corpusVars, pages, page_i, all_errors,
                   corrections_applied, sideVars>>

----------------------------------------------------------------------------
(* FrequencyBasedCorrector *)

\* an entry of analysis['error_candidates']
Candidate(rare_word, suggested_correction, rare_count, correct_count, edit_distance) ==
    [rare_word |-> rare_word, suggested_correction |-> suggested_correction,
     rare_count |-> rare_count, correct_count |-> correct_count,
     edit_distance |-> edit_distance]

\* len(w) > 1 and w[0].isupper() and w[1:].islower()
IsCapitalized(w) == Len(w) > 1 /\ IsUpperChar(w[1]) /\ str_islower(Tail(w))

\* w.isupper() and len(w) > 1
IsAllCaps(w) == str_isupper(w) /\ Len(w) > 1

\* line 88 with <= for <
FrequencyConfidencePenaltyAt30(rare_count, correct_count, edit_distance) ==
    (IF correct_count >= 50 * rare_count THEN 9500
     ELSE IF correct_count >= 20 * rare_count THEN 9000
     ELSE IF correct_count >= 10 * rare_count THEN 8500
     ELSE 7000)
    + (IF edit_distance = 1 THEN 300 ELSE IF edit_distance = 2 THEN 100 ELSE 0)
    - (IF correct_count <= 30 THEN 1000 ELSE 0)

\* lines 69-89; frequency_ratio = correct_count / rare_count with rare_count > 0
FrequencyConfidence(rare_count, correct_count, edit_distance) ==
    LET tier   == IF correct_count >= 50 * rare_count THEN 9500
                  ELSE IF correct_count >= 20 * rare_count THEN 9000
                  ELSE IF correct_count >= 10 * rare_count THEN 8500
                  ELSE 7000
        closer == IF edit_distance = 1 THEN tier + 300
                  ELSE IF edit_distance = 2 THEN tier + 100
                  ELSE tier
    IN  IF correct_count < 30 THEN closer - 1000 ELSE closer

\* lines 47-59 without lines 66-67
LeavesEarlyCountsUnchecked(candidate) ==
    \/ candidate.rare_word = <<>>
    \/ candidate.suggested_correction = <<>>
    \/ IsCapitalized(candidate.rare_word)
    \/ IsAllCaps(candidate.rare_word)

\* lines 47-67: the iteration ends in a `continue`
LeavesEarly(candidate) ==
    \/ candidate.rare_word = <<>>
    \/ candidate.suggested_correction = <<>>
    \/ IsCapitalized(candidate.rare_word)
    \/ IsAllCaps(candidate.rare_word)
    \/ candidate.correct_count = 0
    \/ candidate.rare_count = 0

\* one iteration of `for candidate in error_candidates` (lines 40-99)
LoadCandidate ==
    /\ pc = "load"
    /\ load_i < Len(error_candidates)
    /\ LET candidate == error_candidates[load_i + 1]
           rare_word == candidate.rare_word
           conf      == FrequencyConfidence(candidate.rare_count, candidate.correct_count,
                                            candidate.edit_distance)
       IN  IF LeavesEarly(candidate)
           THEN /\ confidence' = -1
                /\ UNCHANGED corrections
           ELSE /\ confidence' = conf
                /\ corrections' =
                       IF /\ conf >= confidence_threshold
                          /\ (rare_word \in DOMAIN corrections => conf > corrections[rare_word][2])
                       THEN [w \in DOMAIN corrections \cup {rare_word} |->
                               IF w = rare_word THEN <<candidate.suggested_correction, conf>>
                               ELSE corrections[w]]
                       ELSE corrections
    /\ load_i' = load_i + 1
    /\ UNCHANGED <<pc, error_candidates, confidence_threshold, corrections_made,
                   applyVars, configVars, corpusVars, fileVars, mergeVars, hybridVars, toolVars, extraVars>>

\* the loop is over (lines 101-114 only print)
LoadReturn ==
    /\ pc = "load"
    /\ load_i = Len(error_candidates)
    /\ pc' = "loaded"
    /\ UNCHANGED <<applyVars, configVars, corpusVars, fileVars, sideVars>>

\* lines 119-124 left out
correct_word_any_case(word) ==
    IF str_lower(word) \in DOMAIN corrections
    THEN LET correct == corrections[str_lower(word)][1]
             conf    == corrections[str_lower(word)][2]
         IN  << IF IsUpperChar(word[1]) THEN str_capitalize(correct)
                ELSE IF str_isupper(word) THEN str_upper(correct)
                ELSE correct,
                conf >>
    ELSE <<word, 0>>

\* correct_word (lines 116-137)
correct_word(word) ==
    IF IsCapitalized(word) THEN <<word, 0>>
    ELSE IF IsAllCaps(word) THEN <<word, 0>>
    ELSE IF str_lower(word) \in DOMAIN corrections
    THEN LET correct == corrections[str_lower(word)][1]
             conf    == corrections[str_lower(word)][2]
         IN  << IF IsUpperChar(word[1]) THEN str_capitalize(correct)
                ELSE IF str_isupper(word) THEN str_upper(correct)
                ELSE correct,
                conf >>
    ELSE <<word, 0>>

\* replace_word (lines 141-148), without the counting
replace_word(word, th) ==
    LET corrected == correct_word(word)
    IN  IF corrected[2] >= th /\ corrected[1] # word THEN corrected[1] ELSE word

\* re.sub(r'\b[A-Za-z]+\b', replace_word, text): t from offset a on, with the
\* matches toks that are left
RECURSIVE SubWords(_, _, _, _)
SubWords(t, a, toks, th) ==
    IF toks = <<>> THEN SliceFrom(t, a)
    ELSE LET w == Head(toks)[1]
             p == Head(toks)[2]
         IN  Slice(t, a, p) \o replace_word(w, th)
             \o SubWords(t, p + Len(w), Tail(toks), th)

correct_text(t, th) == SubWords(t, 0, _tokenize_with_positions(t), th)

\* self.corrections_made after the replace_word calls of one correct_text
CountCorrections(made, t, th) ==
    LET toks  == _tokenize_with_positions(t)
        hits  == { k \in 1..Len(toks) : replace_word(toks[k][1], th) # toks[k][1] }
        pairs == { <<toks[k][1], replace_word(toks[k][1], th)>> : k \in hits }
    IN  [pr \in DOMAIN made \cup pairs |->
            (IF pr \in DOMAIN made THEN made[pr] ELSE 0)
            + Cardinality({ k \in hits : toks[k][1] = pr[1] })]

\* page['markdown'] = self.correct_text(page['markdown'], threshold)
CorrectText ==
    /\ pc = "loaded"
    /\ text' = correct_text(markdown, threshold)
    /\ corrections_made' = CountCorrections(corrections_made, markdown, threshold)
    /\ pc' = "corrected"
    /\ UNCHANGED <<markdown, errors, errors_sorted, threshold, applied, idx,
                   error_candidates, load_i, confidence, confidence_threshold, corrections,
                   configVars, corpusVars, fileVars, mergeVars, hybridVars, toolVars, extraVars>>

----------------------------------------------------------------------------
(* HybridSpellChecker *)

\* lines 131-137 with `if` for `elif`: the frequency steps add up
SuggestionFrequencyScoreAddedUp(total_suggestion_count) ==
    (IF total_suggestion_count >= 100 THEN 4000 ELSE 0)
    + (IF total_suggestion_count >= 10 THEN 3000 ELSE 0)
    + (IF total_suggestion_count >= 3 THEN 2000 ELSE 1000)

\* lines 131-138
SuggestionFrequencyScore(total_suggestion_count) ==
    IF total_suggestion_count >= 100 THEN 4000
    ELSE IF total_suggestion_count >= 10 THEN 3000
    ELSE IF total_suggestion_count >= 3 THEN 2000
    ELSE 1000

\* lines 141-146
OriginalRarityScore(original_count) ==
    IF original_count = 0 THEN 3000
    ELSE IF original_count <= 2 THEN 2000
    ELSE IF original_count <= 5 THEN 1000
    ELSE 0

\* lines 149-154
EditDistanceScore(edit_dist) ==
    IF edit_dist = 1 THEN 3000
    ELSE IF edit_dist = 2 THEN 2000
    ELSE IF edit_dist = 3 THEN 1000
    ELSE 0

\* get_correction (lines 79-152): the returned pair, suggestions being what
\* self.dict.suggest(word) gives
get_correction_of(word, suggestions) ==
    IF word \in modern_dict.words THEN <<word, 0>>
    ELSE IF suggestions = <<>> THEN <<word, 0>>
    ELSE LET top_suggestion == suggestions[1]
             total_suggestion_count ==
                 Get(word_counts, top_suggestion) + Get(word_counts, str_lower(top_suggestion))
             original_count == Get(word_counts, word)
             edit_dist == _edit_distance(str_lower(word), str_lower(top_suggestion))
         IN  IF total_suggestion_count = 0 THEN <<word, 0>>
             ELSE << top_suggestion,
                     SuggestionFrequencyScore(total_suggestion_count)
                     + OriginalRarityScore(original_count)
                     + EditDistanceScore(edit_dist) >>

get_correction(word) == get_correction_of(word, suggest)

\* a call of get_correction
GetCorrection ==
    /\ pc = "check"
    /\ correction' = get_correction(arg_word)
    /\ words_checked' = words_checked + 1
    /\ words_invalid' = IF arg_word \in modern_dict.words THEN words_invalid
                        ELSE words_invalid + 1
    /\ pc' = "checked"
    /\ UNCHANGED <<arg_word, word_counts, suggest, applyVars, configVars, corpusVars,
                   fileVars, mergeVars, freqVars, toolVars, extraVars>>

----------------------------------------------------------------------------
(* Initial states *)

SeqsUpTo(S, n) == UNION { [1..k -> S] : k \in 0..n }

ApplyIdle ==
    /\ markdown = <<>>
    /\ text = <<>>
    /\ errors = <<>>
    /\ errors_sorted = <<>>
    /\ applied = 0
    /\ idx = 0

CorpusIdle ==
    /\ unigrams = <<>>
    /\ bigrams = <<>>
    /\ trigrams = <<>>
    /\ vocabulary = {}
    /\ entities = <<>>

FileIdle ==
    /\ pages = <<>>
    /\ page_i = 0
    /\ all_errors = <<>>
    /\ corrections_applied = 0
    /\ stats = <<>>

MergeIdle ==
    /\ list1 = <<>>
    /\ list2 = <<>>
    /\ merged = <<>>

FreqIdle ==
    /\ error_candidates = <<>>
    /\ load_i = 0
    /\ confidence = -1
    /\ confidence_threshold = 0
    /\ corrections = <<>>
    /\ corrections_made = <<>>

NoFile == <<"(no file)">>

BootIdle ==
    /\ dict_file = NoFile
    /\ response = <<>>
    /\ urlopen_calls = 0

LevIdle ==
    /\ lev_s1 = <<>>
    /\ lev_s2 = <<>>
    /\ lev_distances = <<>>

IndexIdle ==
    /\ high_freq_dict = {}
    /\ dict_by_first_letter = <<>>

TokenIdle == corrections_in_text = <<>>

NoValue == <<"None">>

\* speeches_from_pages, lines 558-565
SegmentIdle ==
    /\ seg_pages = <<>>
    /\ pages_sorted = <<>>
    /\ page_k = 0
    /\ paragraphs = <<>>
    /\ para_i = 0
    /\ current_house = NoValue
    /\ current_date_raw = NoValue
    /\ current_date_iso = NoValue
    /\ current_debate = NoValue
    /\ current_speech = <<>>
    /\ seg_speeches = <<>>

\* SpeakerIDAssigner.__init__
SpeakerIdle ==
    /\ speaker_registry = <<>>
    /\ speaker_metadata = <<>>
    /\ name_variations = <<>>
    /\ ambiguous_cases = <<>>
    /\ next_id = 1
    /\ speaker_stats = [total_speeches |-> 0, unique_speakers |-> 0, name_variations |-> 0,
                        ambiguous_cases |-> 0]
    /\ speeches = <<>>

ExtraIdle ==
    /\ BootIdle
    /\ LevIdle
    /\ IndexIdle
    /\ TokenIdle
    /\ SpeakerIdle
    /\ SegmentIdle

ToolIdle ==
    /\ valid = FALSE
    /\ similar_words = <<>>
    /\ confusion_list = <<>>
    /\ arg_context = <<>>
    /\ edit_corrections = <<>>

HybridIdle ==
    /\ arg_word = <<>>
    /\ word_counts = <<>>
    /\ suggest = <<>>
    /\ words_checked = 0
    /\ words_invalid = 0
    /\ correction = <<>>

EnchantLoaded == [loaded |-> TRUE, words |-> ModernWords]

EnchantMissing == [loaded |-> FALSE, words |-> {}]

\* no corrector is running
CorrectorIdle ==
    /\ threshold = 0
    /\ modern_dict = EnchantLoaded
    /\ edit_distance_threshold = 2
    /\ ApplyIdle
    /\ CorpusIdle
    /\ FileIdle
    /\ MergeIdle
    /\ FreqIdle
    /\ HybridIdle
    /\ ToolIdle

(* _apply_corrections on its own *)

ApplyTexts == {TEH_Teh_teh}

ApplyThresholds == {7000, 8000}

\* suggestion lists: none, one above and one below the thresholds, and two
ApplySuggestions ==
    { <<>>, <<<<the, 8500>>>>, <<<<the, 7500>>>>, <<<<then, 7000>>, <<the, 6000>>>> }

\* the error candidates of a text: a token of the text at its own position
ApplyErrorsOf(t) ==
    LET toks == _tokenize_with_positions(t)
    IN  { NewError(0, toks[i][1], toks[i][2], <<"unknown_word">>, sg) :
            i \in 1..Len(toks), sg \in ApplySuggestions }

InitApply ==
    /\ ExtraIdle
    /\ pc = "call"
    /\ markdown \in ApplyTexts
    /\ errors \in SeqsUpTo(ApplyErrorsOf(markdown), MaxErrors)
    /\ threshold \in ApplyThresholds
    /\ text = <<>>
    /\ errors_sorted = <<>>
    /\ applied = 0
    /\ idx = 0
    /\ modern_dict = EnchantLoaded
    /\ edit_distance_threshold = 2
    /\ CorpusIdle
    /\ FileIdle
    /\ MergeIdle
    /\ FreqIdle
    /\ HybridIdle
    /\ ToolIdle

NextApply == ApplyCall \/ ApplyStep \/ ApplyReturn

SpecApply == InitApply /\ [][NextApply]_vars

(* _merge_suggestions on its own *)

MaxList == 2

MergeWords == {the, then}

MergeConfidences == {5000, 7000, 8500}

InitMerge ==
    /\ ExtraIdle
    /\ pc = "merge"
    /\ list1 \in SeqsUpTo(MergeWords \X MergeConfidences, MaxList)
    /\ list2 \in SeqsUpTo(MergeWords \X MergeConfidences, MaxList)
    /\ merged = <<>>
    /\ threshold = 0
    /\ modern_dict = EnchantLoaded
    /\ edit_distance_threshold = 2
    /\ ApplyIdle
    /\ CorpusIdle
    /\ FileIdle
    /\ FreqIdle
    /\ HybridIdle
    /\ ToolIdle

NextMerge == MergeCall

SpecMerge == InitMerge /\ [][NextMerge]_vars

(* FrequencyBasedCorrector: the table is loaded and a text corrected *)

MaxCandidates == 2

\* rare and correct counts on each side of the ratios 10, 20, 50 and of the
\* correct count 30
CountPairs == { <<3, 150>>, <<1, 29>>, <<1, 30>>, <<3, 60>>, <<3, 30>>, <<3, 29>> }

\* 999 is the default of candidate.get('edit_distance', 999)
CandidateEntries ==
    { Candidate(bourne, borne, cp[1], cp[2], d) : cp \in CountPairs, d \in {1, 2, 999} }
    \cup { Candidate(Bourne, borne, 1, 150, 1),
           Candidate(BOURNE, borne, 1, 150, 1),
           Candidate(bourne, <<>>, 1, 150, 1),
           Candidate(bourne, borne, 0, 150, 1) }

InitFreq ==
    /\ ExtraIdle
    /\ pc = "load"
    /\ error_candidates \in SeqsUpTo(CandidateEntries, MaxCandidates)
    /\ load_i = 0
    /\ confidence = -1
    /\ confidence_threshold \in {7000, 8500}
    /\ corrections = <<>>
    /\ corrections_made = <<>>
    /\ markdown = Bourne_bourne_BOURNE
    /\ threshold \in {0, 8500}
    /\ text = <<>>
    /\ errors = <<>>
    /\ errors_sorted = <<>>
    /\ applied = 0
    /\ idx = 0
    /\ modern_dict = EnchantLoaded
    /\ edit_distance_threshold = 2
    /\ CorpusIdle
    /\ FileIdle
    /\ MergeIdle
    /\ HybridIdle
    /\ ToolIdle

NextFreq == LoadCandidate \/ LoadReturn \/ CorrectText

SpecFreq == InitFreq /\ [][NextFreq]_vars

(* HybridSpellChecker.get_correction on its own *)

\* the words asked about, and what enchant may suggest for them
HybridWords == {teh, cau, the, mcadam}

HybridSuggestions == { <<>>, <<the>>, <<then, the>>, <<can>>, <<McAdam>> }

\* counts on each side of the steps 3, 10, 100 (a lower-case suggestion is
\* counted twice) and 0, 2, 5
InitHybrid ==
    /\ ExtraIdle
    /\ pc = "check"
    /\ arg_word \in HybridWords
    /\ suggest \in HybridSuggestions
    /\ \E original_count \in {0, 2, 3, 5, 6}, suggestion_count \in {0, 1, 2, 4, 5, 49, 50} :
           word_counts =
               [w \in { v \in {arg_word} : original_count > 0 }
                      \cup { v \in Range(suggest) : suggestion_count > 0 } |->
                   IF w = arg_word THEN original_count ELSE suggestion_count]
    /\ words_checked = 0
    /\ words_invalid = 0
    /\ correction = <<>>
    /\ modern_dict = EnchantLoaded
    /\ edit_distance_threshold = 2
    /\ threshold = 7000
    /\ ApplyIdle
    /\ CorpusIdle
    /\ FileIdle
    /\ MergeIdle
    /\ FreqIdle
    /\ ToolIdle

NextHybrid == GetCorrection

SpecHybrid == InitHybrid /\ [][NextHybrid]_vars

(* discover_ocr_errors: find_similar_words *)

MinFrequency == 10

FirstLetterOffset == 2

MaxChecks == 500

TopSimilar == 5

DiscoverMaxDistance == 2

\* a dictionary of every word, whatever its count
build_high_frequency_dictionary_all(counts) == { str_lower(w) : w \in DOMAIN counts }

\* build_high_frequency_dictionary
build_high_frequency_dictionary(counts) ==
    { str_lower(w) : w \in { v \in DOMAIN counts : counts[v] >= MinFrequency } }

\* ord() of a lower-case letter, counted from ord('a') = 1; 0 for another character
OrdOf(c) == IF IsLowerChar(c) THEN CHOOSE i \in 1..26 : Lower[i] = c ELSE 0

\* no restriction on the first letter
possible_first_letters_any(word_lower) == { Lower[i] : i \in 1..26 }

\* possible_first_letters: chr(ord(first_letter) + offset) within 'a'..'z'
possible_first_letters(word_lower) ==
    { Lower[i] : i \in { j \in 1..26 :
                            /\ IsLowerChar(word_lower[1])
                            /\ j - OrdOf(word_lower[1]) >= -FirstLetterOffset
                            /\ j - OrdOf(word_lower[1]) <= FirstLetterOffset } }

\* the orders the two loops can visit the dictionary words in: the letters in
\* any order, and the words of one letter, one after another, in any order
VisitOrders(dictionary, letters) ==
    { order \in Orderings({ w \in dictionary : w[1] \in letters }) :
        \A i, j, k \in 1..Len(order) :
            (i < j /\ j < k /\ order[i][1] = order[k][1]) => order[j][1] = order[i][1] }

\* sorted(candidates, key=lambda x: x[1]): ascending, stable
RECURSIVE InsertByDistance(_, _)
InsertByDistance(x, s) ==
    IF s = <<>> THEN <<x>>
    ELSE IF Head(s)[2] < x[2]
         THEN <<Head(s)>> \o InsertByDistance(x, Tail(s))
         ELSE <<x>> \o s

RECURSIVE SortByDistance(_)
SortByDistance(s) ==
    IF s = <<>> THEN <<>>
    ELSE InsertByDistance(Head(s), SortByDistance(Tail(s)))

\* find_similar_words, given the high-frequency dictionary that main indexes
\* by first letter: the lists it can return
find_similar_words(word, dictionary, max_distance) ==
    LET word_lower == str_lower(word)
        Near(dict_word) == ~(Abs(Len(dict_word) - Len(word_lower)) > max_distance)
        dist == [dict_word \in dictionary |-> levenshtein_distance(word_lower, dict_word)]
    IN  { LET checked == SliceTo(SelectSeq(order, Near), MaxChecks)
              hits    == SelectSeq(checked,
                             LAMBDA dict_word : /\ dist[dict_word] <= max_distance
                                                /\ dist[dict_word] > 0)
          IN  SliceTo(SortByDistance([k \in 1..Len(hits) |-> <<hits[k], dist[hits[k]]>>]),
                      TopSimilar) :
          order \in VisitOrders(dictionary, possible_first_letters(word_lower)) }

\* main, lines 151-153: dict_by_first_letter[word[0]].append(word)
index_by_first_letter(dictionary) ==
    [c \in { w[1] : w \in dictionary } |-> { w \in dictionary : w[1] = c }]

\* main, lines 146-153 and 176: the dictionary is built and indexed, and one
\* rare word looked up
FindSimilarWords ==
    /\ pc = "rare"
    /\ high_freq_dict' = build_high_frequency_dictionary(word_counts)
    /\ dict_by_first_letter' = index_by_first_letter(high_freq_dict')
    /\ similar_words' \in find_similar_words(arg_word,
                              UNION { dict_by_first_letter'[c] : c \in DOMAIN dict_by_first_letter' },
                              DiscoverMaxDistance)
    /\ pc' = "similar"
    /\ UNCHANGED <<valid, confusion_list, arg_context, edit_corrections, applyVars,
                   configVars, corpusVars, fileVars, mergeVars, freqVars, hybridVars, exceptIndex>>

\* the rare words looked up and the words the corpus may hold ten times
DiscoverRareWords ==
    { <<"t","h","e","u">>, <<"T","h","e","u">>, <<"w","h","e","u">> }

DiscoverWords ==
    { <<"t","h","e","n">>, <<"T","h","e","m">>, <<"t","h","e","y">>, <<"t","h","e","e">>,
      <<"t","h","a","n">>, <<"w","h","e","n">>, <<"s","h","e","w">> }

InitDiscover ==
    /\ ExtraIdle
    /\ pc = "rare"
    /\ arg_word \in DiscoverRareWords
    /\ word_counts \in { [w \in DiscoverWords \cup {arg_word} |->
                              IF w = arg_word THEN 1 ELSE often[w]] :
                          often \in [DiscoverWords -> {MinFrequency - 1, MinFrequency}] }
    /\ suggest = <<>>
    /\ words_checked = 0
    /\ words_invalid = 0
    /\ correction = <<>>
    /\ modern_dict = EnchantMissing
    /\ edit_distance_threshold = 2
    /\ threshold = 7000
    /\ ApplyIdle
    /\ CorpusIdle
    /\ FileIdle
    /\ MergeIdle
    /\ FreqIdle
    /\ ToolIdle

NextDiscover == FindSimilarWords

SpecDiscover == InitDiscover /\ [][NextDiscover]_vars

----------------------------------------------------------------------------
(* DictionaryChecker.check_word and ConfusionDetector on their own *)

\* words for each step of check_word, and beside each step
OracleStems ==
    { <<>>, <<"x">>, <<"s","h","e","w">>, <<"S","h","e","w">>,
      <<"P","U","B","L","I","C","K">>, McAdam, mcadam, <<"M","C","A","D","A","M">>,
      <<"1","2">>, <<"I","V">>, <<"i","v">>, the, <<"t","H","e">>, cau,
      McAdarn, <<"t","l","i","e">>, <<"u">>, <<"X","h","e">> }

OracleEndings == { <<>>, <<".">>, <<",", EmDash>>, <<".", "x">> }

InitOracle ==
    /\ ExtraIdle
    /\ pc = "ask"
    /\ arg_word \in { stem \o ending : stem \in OracleStems, ending \in OracleEndings }
    /\ modern_dict \in {EnchantLoaded, EnchantMissing}
    /\ valid = FALSE
    /\ similar_words = <<>>
    /\ confusion_list = <<>>
    /\ arg_context = <<>>
    /\ edit_corrections = <<>>
    /\ word_counts = <<>>
    /\ suggest = <<>>
    /\ words_checked = 0
    /\ words_invalid = 0
    /\ correction = <<>>
    /\ edit_distance_threshold = 2
    /\ threshold = 7000
    /\ ApplyIdle
    /\ CorpusIdle
    /\ FileIdle
    /\ MergeIdle
    /\ FreqIdle

NextOracle == CheckWord \/ FindConfusionPatterns

SpecOracle == InitOracle /\ [][NextOracle]_vars

(* process_file on a corpus *)

PageTexts == {he_cau_see_it, McAdam_speaks, McAdarn_speaks, <<>>, NoMarkdown}

PageThresholds == {7000, 8000, 9000}

InitFile ==
    /\ ExtraIdle
    /\ pc = "init"
    /\ pages \in (SeqsUpTo(PageTexts, MaxPages) \ {<<>>})
    /\ page_i = 0
    /\ all_errors = <<>>
    /\ corrections_applied = 0
    /\ threshold \in PageThresholds
    /\ modern_dict \in {EnchantLoaded, EnchantMissing}
    /\ edit_distance_threshold \in {1, 2}
    /\ ApplyIdle
    /\ CorpusIdle
    /\ MergeIdle
    /\ FreqIdle
    /\ HybridIdle
    /\ ToolIdle
    /\ stats = <<>>

NextFile ==
    \/ InitializeComponents
    \/ ProcessPage
    \/ ApplyCall
    \/ ApplyStep
    \/ ApplyReturn
    \/ StorePage
    \/ WriteOutputs

SpecFile == InitFile /\ [][NextFile]_vars

(* process_file on the page of a larger corpus, the corpus given by how often *)
(* each of its page texts occurs: the components are built (lines 650-658)  *)
(* and `pages` holds the page that is still to be processed                 *)

MaxEditDistance == 2

\* a Counter over the n-grams of the page texts cs[k][1], each met cs[k][2] times
RECURSIVE CountGramTimes(_, _, _)
CountGramTimes(cs, n, gram) ==
    IF cs = <<>> THEN 0
    ELSE Head(cs)[2] * CountGram(<<Head(cs)[1]>>, n, gram) + CountGramTimes(Tail(cs), n, gram)

TrainCounterTimes(cs, n) ==
    [gram \in GramKeys([k \in 1..Len(cs) |-> cs[k][1]], n) |-> CountGramTimes(cs, n, gram)]

\* 'the' 500 times and 'teh' twice; the same with 'then'; 'teh' among six
\* words within distance 2 of it; 'teh' and 'the' after the words 'see it'
EditCorpora ==
    { << <<the, 500>>, <<teh, 2>> >>,
      << <<the, 500>>, <<teh, 2>>, <<then, 10>> >>,
      << <<teh, 1>>, <<the, 5>>, <<then, 3>>, <<<<"h","e">>, 3>>, <<<<"t","e","n">>, 2>>,
         <<<<"t","e","a">>, 2>>, <<<<"t","e","e">>, 1>> >>,
      << <<see_it_teh, 1>>, <<the, 500>> >>,
      << <<see_it_teh, 1>>, <<see_it_the, 2>> >>,
      << <<see_it_teh, 1>>, <<see_it_the, 9>> >>,
      << <<see_it_teh, 1>>, <<see_it_tea, 9>> >> }

InitEdit ==
    /\ ExtraIdle
    /\ pc = "page"
    /\ \E cs \in EditCorpora :
           /\ pages \in { <<cs[k][1]>> : k \in { j \in 1..Len(cs) : cs[j][1] \in {teh, see_it_teh} } }
           /\ unigrams = TrainCounterTimes(cs, 1)
           /\ bigrams = TrainCounterTimes(cs, 2)
           /\ trigrams = TrainCounterTimes(cs, 3)
    /\ vocabulary = { g[1] : g \in DOMAIN unigrams }
    /\ entities = <<>>
    /\ page_i = 0
    /\ all_errors = <<>>
    /\ corrections_applied = 0
    /\ threshold \in PageThresholds
    /\ modern_dict \in {EnchantLoaded, EnchantMissing}
    /\ edit_distance_threshold \in 1..MaxEditDistance
    /\ ApplyIdle
    /\ MergeIdle
    /\ FreqIdle
    /\ HybridIdle
    /\ ToolIdle
    /\ stats = <<>>

NextEdit ==
    \/ GenerateCorrections
    \/ ProcessPage
    \/ ApplyCall
    \/ ApplyStep
    \/ ApplyReturn
    \/ StorePage
    \/ WriteOutputs

SpecEdit == InitEdit /\ [][NextEdit]_vars

----------------------------------------------------------------------------
(* the two edit-distance searches *)

InitSearch == InitEdit \/ InitDiscover

NextSearch ==
    \/ GenerateCorrections
    \/ ProcessPage
    \/ ApplyCall
    \/ ApplyStep
    \/ ApplyReturn
    \/ StorePage
    \/ WriteOutputs
    \/ FindSimilarWords

SpecSearch == InitSearch /\ [][NextSearch]_vars

----------------------------------------------------------------------------
(* every producer of confidences: the three correctors *)

InitScorers == InitFile \/ InitEdit \/ InitFreq \/ InitHybrid

NextScorers ==
    \/ InitializeComponents
    \/ ProcessPage
    \/ ApplyCall
    \/ ApplyStep
    \/ ApplyReturn
    \/ StorePage
    \/ WriteOutputs
    \/ LoadCandidate
    \/ LoadReturn
    \/ CorrectText
    \/ GetCorrection

SpecScorers == InitScorers /\ [][NextScorers]_vars

(* FrequencyBasedCorrector on occurrences of every capitalization *)

\* table entries for 'a' and for 'bourne'
CapitalEntries ==
    { Candidate(<<"a">>, <<"a","n">>, 1, 150, d) : d \in {1, 2} }
    \cup { Candidate(bourne, borne, 1, 150, d) : d \in {1, 2} }
    \cup { Candidate(bourne, Bourne, 1, 30, d) : d \in {1, 2} }

\* 'A bourne', 'BoURNE bOURNE', 'Bourne BOURNE a', 'a, bourne-a 4a a_a.'
CapitalTexts ==
    { <<"A"," ">> \o bourne,
      <<"B","o","U","R","N","E"," ","b","O","U","R","N","E">>,
      Bourne \o <<" ">> \o BOURNE \o <<" ","a">>,
      <<"a",","," ">> \o bourne \o <<"-","a"," ","4","a"," ","a","_","a",".">> }

InitCapital ==
    /\ ExtraIdle
    /\ pc = "load"
    /\ error_candidates \in SeqsUpTo(CapitalEntries, MaxCandidates)
    /\ load_i = 0
    /\ confidence = -1
    /\ confidence_threshold \in {7000, 8500}
    /\ corrections = <<>>
    /\ corrections_made = <<>>
    /\ markdown \in CapitalTexts
    /\ threshold \in {0, 8500}
    /\ text = <<>>
    /\ errors = <<>>
    /\ errors_sorted = <<>>
    /\ applied = 0
    /\ idx = 0
    /\ modern_dict = EnchantLoaded
    /\ edit_distance_threshold = 2
    /\ CorpusIdle
    /\ FileIdle
    /\ MergeIdle
    /\ HybridIdle
    /\ ToolIdle

NextCapital == LoadCandidate \/ LoadReturn \/ CorrectText

SpecCapital == InitCapital /\ [][NextCapital]_vars

(* _load_error_analysis on entries that share a rare word *)

\* entries for 'teh' with equal and with different confidences, with a zero
\* count and with a spelling in another case, and an entry for the letter 'A'
TableEntries ==
    { Candidate(teh, the, 1, 150, 1),
      Candidate(teh, then, 1, 150, 1),
      Candidate(teh, <<"t","e","a">>, 1, 25, 1),
      Candidate(teh, can, 3, 150, 2),
      Candidate(teh, the, 0, 150, 1),
      Candidate(teh, the, 1, 0, 1),
      Candidate(<<"t","E","h">>, the, 1, 150, 1),
      Candidate(<<"T","e","h">>, the, 1, 150, 1),
      Candidate(<<"T","E","H">>, the, 1, 150, 1),
      Candidate(<<"A">>, <<"a","n">>, 1, 150, 1) }

InitTable ==
    /\ ExtraIdle
    /\ pc = "load"
    /\ error_candidates \in SeqsUpTo(TableEntries, MaxCandidates)
    /\ load_i = 0
    /\ confidence = -1
    /\ confidence_threshold \in {0, 8300, 9600, 9800}
    /\ corrections = <<>>
    /\ corrections_made = <<>>
    /\ markdown = <<>>
    /\ threshold = 0
    /\ text = <<>>
    /\ errors = <<>>
    /\ errors_sorted = <<>>
    /\ applied = 0
    /\ idx = 0
    /\ modern_dict = EnchantLoaded
    /\ edit_distance_threshold = 2
    /\ CorpusIdle
    /\ FileIdle
    /\ MergeIdle
    /\ HybridIdle
    /\ ToolIdle

NextTable == LoadCandidate \/ LoadReturn

SpecTable == InitTable /\ [][NextTable]_vars

(* process_file on the pages of a corpus and on a page of a trained corpus *)

InitShipped == InitFile \/ InitEdit

NextShipped ==
    \/ InitializeComponents
    \/ ProcessPage
    \/ ApplyCall
    \/ ApplyStep
    \/ ApplyReturn
    \/ StorePage
    \/ WriteOutputs

SpecShipped == InitShipped /\ [][NextShipped]_vars

(* the two search spaces: the corrector's vocabulary and the dictionary of discover_ocr_errors *)

InitVocabulary == InitFile \/ InitDiscover

NextVocabulary ==
    \/ InitializeComponents
    \/ ProcessPage
    \/ ApplyCall
    \/ ApplyStep
    \/ ApplyReturn
    \/ StorePage
    \/ WriteOutputs
    \/ FindSimilarWords

SpecVocabulary == InitVocabulary /\ [][NextVocabulary]_vars

-----------------------------------------------------------------------------
(* correct_text of the three token-wise correctors *)

\* re.sub(pattern, replace_word, t): t from offset a on, the matches toks
\* that are left replaced by repl, one replacement per match
RECURSIVE Assemble(_, _, _, _)
Assemble(t, a, toks, repl) ==
    IF toks = <<>> THEN SliceFrom(t, a)
    ELSE Slice(t, a, Head(toks)[2]) \o Head(repl)
         \o Assemble(t, Head(toks)[2] + Len(Head(toks)[1]), Tail(toks), Tail(repl))

\* CONFUSION_PATTERNS of ocr_corrector_simple.py, in the order of the dict
\* (the second 'aud' of the literal changes nothing)
CONFUSION_PATTERNS ==
    << <<<<"D","U","E","X">>, <<"D","U","K","E">>>>,
       <<<<"r","n">>, <<"m">>>>,
       <<<<"c","l">>, <<"d">>>>,
       <<<<"v","v">>, <<"w">>>>,
       <<<<"a","u","d">>, <<"a","n","d">>>>,
       <<<<"a","a","d">>, <<"a","n","d">>>>,
       <<<<"t","i","i","e">>, <<"t","h","e">>>>,
       <<<<"t","l","i","e">>, <<"t","h","e">>>>,
       <<<<"b","n","t">>, <<"b","u","t">>>>,
       <<<<"i","u">>, <<"i","n">>>>,
       <<<<"t","h","a","u">>, <<"t","h","a","n">>>>,
       <<<<"c","a","u">>, <<"c","a","n">>>>,
       <<<<"w","h","e","u">>, <<"w","h","e","n">>>>,
       <<<<"t","h","e","u">>, <<"t","h","e","n">>>>,
       <<<<"r","n","o","s","t">>, <<"m","o","s","t">>>>,
       <<<<"r","a","a","y">>, <<"m","a","y">>>>,
       <<<<"c","o","u","u","t","r","y">>, <<"c","o","u","n","t","r","y">>>>,
       <<<<"o","u">>, <<"o","n">>>>,
       <<<<"L","O","E","D","S">>, <<"L","O","R","D","S">>>>,
       <<<<"C","O","U","O","N","S">>, <<"C","O","M","M","O","N","S">>>> >>

SimpleExact == 9500

SimpleSubstring == 8500

MinPatternLen == 3

\* the patterns that the substring loop can use on the word
SubstringPatterns(word) ==
    { k \in 1..Len(CONFUSION_PATTERNS) :
        /\ Contains(word, CONFUSION_PATTERNS[k][1])
        /\ Len(CONFUSION_PATTERNS[k][1]) >= MinPatternLen
        /\ str_replace(word, CONFUSION_PATTERNS[k][1], CONFUSION_PATTERNS[k][2]) # word }

\* SimpleOCRCorrector.correct_word
simple_correct_word(word) ==
    IF \E k \in 1..Len(CONFUSION_PATTERNS) : CONFUSION_PATTERNS[k][1] = word
    THEN LET k == CHOOSE k \in 1..Len(CONFUSION_PATTERNS) : CONFUSION_PATTERNS[k][1] = word
         IN  <<CONFUSION_PATTERNS[k][2], SimpleExact>>
    ELSE IF /\ str_isupper(word)
            /\ \E k \in 1..Len(CONFUSION_PATTERNS) : str_upper(CONFUSION_PATTERNS[k][1]) = word
    THEN LET k == CHOOSE k \in 1..Len(CONFUSION_PATTERNS) :
                      /\ str_upper(CONFUSION_PATTERNS[k][1]) = word
                      /\ \A j \in 1..(k - 1) : str_upper(CONFUSION_PATTERNS[j][1]) # word
         IN  <<str_upper(CONFUSION_PATTERNS[k][2]), SimpleExact>>
    ELSE IF SubstringPatterns(word) # {}
    THEN LET k == CHOOSE k \in SubstringPatterns(word) :
                      \A j \in SubstringPatterns(word) : k <= j
         IN  <<str_replace(word, CONFUSION_PATTERNS[k][1], CONFUSION_PATTERNS[k][2]),
               SimpleSubstring>>
    ELSE <<word, 0>>

\* a replace_word that returns every correction, whatever its confidence
simple_replace_word_any_confidence(word, th) ==
    LET corrected == simple_correct_word(word)
    IN  IF corrected[1] # word THEN corrected[1] ELSE word

\* replace_word of SimpleOCRCorrector.correct_text, without the counting
simple_replace_word(word, th) ==
    LET corrected == simple_correct_word(word)
    IN  IF corrected[2] >= th /\ corrected[1] # word THEN corrected[1] ELSE word

\* SimpleOCRCorrector.correct_text
simple_correct_text(t, th) ==
    LET toks == _tokenize_with_positions(t)
    IN  Assemble(t, 0, toks, [k \in 1..Len(toks) |-> simple_replace_word(toks[k][1], th)])

\* self.corrections_made after one correct_text of SimpleOCRCorrector
SimpleCountCorrections(made, t, th) ==
    LET toks  == _tokenize_with_positions(t)
        hits  == { k \in 1..Len(toks) : simple_replace_word(toks[k][1], th) # toks[k][1] }
        pairs == { <<toks[k][1], simple_replace_word(toks[k][1], th)>> : k \in hits }
    IN  [pr \in DOMAIN made \cup pairs |->
            (IF pr \in DOMAIN made THEN made[pr] ELSE 0)
            + Cardinality({ k \in hits : toks[k][1] = pr[1] })]

\* page['markdown'] = self.correct_text(page['markdown']) of SimpleOCRCorrector
SimpleCorrectText ==
    /\ pc = "simple"
    /\ text' = simple_correct_text(markdown, threshold)
    /\ corrections_made' = SimpleCountCorrections(corrections_made, markdown, threshold)
    /\ pc' = "simple corrected"
    /\ UNCHANGED <<markdown, errors, errors_sorted, threshold, applied, idx,
                   error_candidates, load_i, confidence, confidence_threshold, corrections,
                   configVars, corpusVars, fileVars, mergeVars, hybridVars, toolVars, extraVars>>

\* a match [a, b) of \b[A-Za-z](?:[A-Za-z\-\']*[A-Za-z])?\b
IsHybridTokenSpan(s, a, b) ==
    /\ 0 <= a /\ a < b /\ b <= Len(s)
    /\ IsAlpha(s[a + 1]) /\ IsAlpha(s[b])
    /\ \A i \in (a + 1)..b : IsAlpha(s[i]) \/ s[i] \in {"-", "'"}
    /\ (a = 0 \/ ~IsWordChar(s[a]))
    /\ (b = Len(s) \/ ~IsWordChar(s[b + 1]))

\* the matches from offset a on: the longest one at the first offset that has one
RECURSIVE HybridTokensFrom(_, _)
HybridTokensFrom(s, a) ==
    IF a >= Len(s) THEN <<>>
    ELSE IF \E b \in (a + 1)..Len(s) : IsHybridTokenSpan(s, a, b)
         THEN LET b == CHOOSE b \in (a + 1)..Len(s) :
                           /\ IsHybridTokenSpan(s, a, b)
                           /\ \A c \in (b + 1)..Len(s) : ~IsHybridTokenSpan(s, a, c)
              IN  <<<<Slice(s, a, b), a>>>> \o HybridTokensFrom(s, b)
         ELSE HybridTokensFrom(s, a + 1)

\* what self.dict.suggest gives for the words of the texts
dict_suggest(word) ==
    CASE word = teh -> <<the>>
      [] word = <<"w","e","l","-","c","o","m","e">> -> <<<<"w","e","l","c","o","m","e">>>>
      [] word = <<"c","o","m","e","-">> \o teh -> <<<<"c","o","m","e">> \o the, the>>
      [] OTHER -> <<>>

ShortWord == 2

LongCaps == 4

\* lines 192-197: the word is returned without a call of get_correction
hybrid_skips(word) == Len(word) <= ShortWord \/ (str_isupper(word) /\ Len(word) > LongCaps)

\* the pair that replace_word of HybridSpellChecker.correct_text decides on
hybrid_correction(word) ==
    IF hybrid_skips(word) THEN <<word, 0>> ELSE get_correction_of(word, dict_suggest(word))

hybrid_replace_word(word, min_confidence) ==
    LET corrected == hybrid_correction(word)
    IN  IF corrected[2] >= min_confidence /\ corrected[1] # word THEN corrected[1] ELSE word

\* HybridSpellChecker.correct_text: the corrected text
hybrid_correct_text(t, min_confidence) ==
    LET toks == HybridTokensFrom(t, 0)
    IN  Assemble(t, 0, toks,
                 [k \in 1..Len(toks) |-> hybrid_replace_word(toks[k][1], min_confidence)])

\* HybridSpellChecker.correct_text: corrections_in_text, one record per rewritten word
hybrid_corrections_list(t, min_confidence) ==
    LET toks == HybridTokensFrom(t, 0)
        hit(tok) == hybrid_replace_word(tok[1], min_confidence) # tok[1]
        hits == SelectSeq(toks, hit)
    IN  [k \in 1..Len(hits) |->
            [original |-> hits[k][1], correction |-> hybrid_correction(hits[k][1])[1],
             confidence |-> hybrid_correction(hits[k][1])[2]]]

\* corrected_text, corrections = self.correct_text(text, min_confidence)
HybridCorrectText ==
    /\ pc = "hybrid"
    /\ text' = hybrid_correct_text(markdown, threshold)
    /\ corrections_in_text' = hybrid_corrections_list(markdown, threshold)
    /\ LET asked == SelectSeq(HybridTokensFrom(markdown, 0), LAMBDA tok : ~hybrid_skips(tok[1]))
       IN  /\ words_checked' = words_checked + Len(asked)
           /\ words_invalid' = words_invalid
                  + Len(SelectSeq(asked, LAMBDA tok : tok[1] \notin modern_dict.words))
    /\ pc' = "hybrid corrected"
    /\ UNCHANGED <<markdown, errors, errors_sorted, threshold, applied, idx,
                   arg_word, word_counts, suggest, correction,
                   configVars, corpusVars, fileVars, mergeVars, freqVars, toolVars, exceptToken>>

\* 'he cau caution it, LOEDS.', 'cau-cau 4cau rnost', 'cl cau_x aud'
SimpleTexts ==
    { <<"h","e"," ">> \o cau \o <<" ">> \o cau \o <<"t","i","o","n"," ","i","t",","," ","L","O","E","D","S",".">>,
      cau \o <<"-">> \o cau \o <<" ","4">> \o cau \o <<" ","r","n","o","s","t">>,
      <<"c","l"," ">> \o cau \o <<"_","x"," ","a","u","d">> }

\* 'teh wel-come, teh.', 'come-teh it TEHTEH 1teh', '-teh- don't'
HybridTexts ==
    { teh \o <<" ","w","e","l","-","c","o","m","e",","," ">> \o teh \o <<".">>,
      <<"c","o","m","e","-">> \o teh \o <<" ","i","t"," ","T","E","H","T","E","H"," ","1">> \o teh,
      <<"-">> \o teh \o <<"-"," ","d","o","n","'","t">> }

TokenThresholds == {0, 7000, 9000, 9500}

InitSimple ==
    /\ ExtraIdle
    /\ pc = "simple"
    /\ markdown \in SimpleTexts
    /\ threshold \in TokenThresholds
    /\ text = <<>>
    /\ errors = <<>>
    /\ errors_sorted = <<>>
    /\ applied = 0
    /\ idx = 0
    /\ modern_dict = EnchantLoaded
    /\ edit_distance_threshold = 2
    /\ CorpusIdle
    /\ FileIdle
    /\ MergeIdle
    /\ FreqIdle
    /\ HybridIdle
    /\ ToolIdle

\* the corpus counts of the suggested words on each side of the steps
InitHybridText ==
    /\ ExtraIdle
    /\ pc = "hybrid"
    /\ markdown \in HybridTexts
    /\ threshold \in TokenThresholds
    /\ text = <<>>
    /\ errors = <<>>
    /\ errors_sorted = <<>>
    /\ applied = 0
    /\ idx = 0
    /\ arg_word = <<>>
    /\ suggest = <<>>
    /\ correction = <<>>
    /\ words_checked = 0
    /\ words_invalid = 0
    /\ word_counts \in [{teh, the, <<"w","e","l","c","o","m","e">>,
                           <<"c","o","m","e">> \o the} -> {0, 1, 50}]
    /\ modern_dict = EnchantLoaded
    /\ edit_distance_threshold = 2
    /\ CorpusIdle
    /\ FileIdle
    /\ MergeIdle
    /\ FreqIdle
    /\ ToolIdle

InitTokens == InitCapital \/ InitSimple \/ InitHybridText

NextTokens ==
    \/ LoadCandidate
    \/ LoadReturn
    \/ CorrectText
    \/ SimpleCorrectText
    \/ HybridCorrectText

SpecTokens == InitTokens /\ [][NextTokens]_vars

-----------------------------------------------------------------------------
(* SpeakerIDAssigner *)

IsSpace(c) == c \in {" ", "\n"}

\* the offset of the first character from offset a on that is no whitespace
RECURSIVE SkipSpaces(_, _)
SkipSpaces(s, a) ==
    IF a < Len(s) /\ IsSpace(s[a + 1]) THEN SkipSpaces(s, a + 1) ELSE a

\* str.lstrip() of whitespace
str_lstrip(s) == SliceFrom(s, SkipSpaces(s, 0))

\* re.sub(r'^[Tt]he\s+', '', name)
remove_the_prefix(name) ==
    IF /\ Len(name) >= 4
       /\ name[1] \in {"T", "t"} /\ name[2] = "h" /\ name[3] = "e"
       /\ IsSpace(name[4])
    THEN SliceFrom(name, SkipSpaces(name, 3))
    ELSE name

\* str.title(): a letter after a letter is lower-cased, any other upper-cased
str_title(s) ==
    [i \in 1..Len(s) |->
        IF i > 1 /\ IsAlpha(s[i - 1]) THEN ToLowerChar(s[i]) ELSE ToUpperChar(s[i])]

honorifics ==
    << <<"M","r",".">>, <<"M","r">>, <<"M","r","s",".">>, <<"M","r","s">>, <<"M","i","s","s">>, <<"S","i","r">>, <<"H","o","n",".">>, <<"H","o","n","o","u","r","a","b","l","e">> >>

\* re.sub(rf'\b{re.escape(honorific)}\s+', '', name, flags=re.IGNORECASE), from offset a on
RECURSIVE remove_honorific(_, _, _)
remove_honorific(name, honorific, a) ==
    IF a >= Len(name) THEN <<>>
    ELSE IF /\ a = 0 \/ ~IsWordChar(name[a])
            /\ a + Len(honorific) < Len(name)
            /\ \A k \in 1..Len(honorific) :
                   ToLowerChar(name[a + k]) = ToLowerChar(honorific[k])
            /\ IsSpace(name[a + Len(honorific) + 1])
         THEN remove_honorific(name, honorific, SkipSpaces(name, a + Len(honorific)))
         ELSE <<name[a + 1]>> \o remove_honorific(name, honorific, a + 1)

\* for honorific in honorifics: name = re.sub(...), from the k-th on
RECURSIVE remove_honorifics(_, _)
remove_honorifics(name, k) ==
    IF k > Len(honorifics) THEN name
    ELSE remove_honorifics(remove_honorific(name, honorifics[k], 0), k + 1)

\* ' '.join(name.split()), from offset a on
RECURSIVE join_split(_, _)
join_split(name, a) ==
    IF a >= Len(name) THEN <<>>
    ELSE IF IsSpace(name[a + 1])
         THEN LET b == SkipSpaces(name, a)
              IN  IF b >= Len(name) THEN <<>>
                  ELSE (IF a = 0 THEN <<>> ELSE <<" ">>) \o join_split(name, b)
         ELSE <<name[a + 1]>> \o join_split(name, a + 1)

Unknown == <<"U","n","k","n","o","w","n">>

\* normalize_name
normalize_name(name) ==
    IF name = <<>> THEN Unknown
    ELSE join_split(
             remove_honorifics(
                 str_title(remove_the_prefix(str_rstrip(name, {".", ",", ";", ":"}))), 1), 0)

_of_ == <<" ","o","f"," ">>

\* the last word of name.split(), name itself when there is none
last_word(name) ==
    LET stripped == str_rstrip(name, {" "})
    IN  IF stripped = <<>> THEN name
        ELSE LET a == CHOOSE a \in 0..(Len(stripped) - 1) :
                          /\ a = 0 \/ IsSpace(stripped[a])
                          /\ \A i \in (a + 1)..Len(stripped) : ~IsSpace(stripped[i])
             IN  SliceFrom(stripped, a)

\* extract_surname
extract_surname(normalized_name) ==
    LET lowered == str_lower(normalized_name)
    IN  IF Contains(lowered, _of_)
        THEN LET a == CHOOSE a \in 0..(Len(lowered) - Len(_of_)) :
                          /\ StartsWithAt(lowered, _of_, a)
                          /\ \A b \in (a + 1)..(Len(lowered) - Len(_of_)) :
                                 ~StartsWithAt(lowered, _of_, b)
             IN  str_title(str_rstrip(str_lstrip(SliceFrom(lowered, a + Len(_of_))), {" "}))
        ELSE last_word(normalized_name)

\* the blocks a[i:i+k] == b[j:j+k] inside a[alo:ahi] and b[blo:bhi]
MatchingBlocks(a, alo, ahi, b, blo, bhi) ==
    { blk \in (alo..(ahi - 1)) \X (blo..(bhi - 1)) \X (1..(ahi - alo)) :
        /\ blk[1] + blk[3] <= ahi
        /\ blk[2] + blk[3] <= bhi
        /\ \A d \in 1..blk[3] : a[blk[1] + d] = b[blk[2] + d] }

\* SequenceMatcher.find_longest_match: of the longest blocks the one that
\* starts earliest in a, and of those the one that starts earliest in b
find_longest_match(a, alo, ahi, b, blo, bhi) ==
    LET blocks == MatchingBlocks(a, alo, ahi, b, blo, bhi)
    IN  CHOOSE blk \in blocks :
            \A other \in blocks :
                \/ other[3] < blk[3]
                \/ other[3] = blk[3] /\ blk[1] < other[1]
                \/ other[3] = blk[3] /\ blk[1] = other[1] /\ blk[2] <= other[2]

\* SequenceMatcher.get_matching_blocks: the number of matched characters
RECURSIVE matched_characters(_, _, _, _, _, _)
matched_characters(a, alo, ahi, b, blo, bhi) ==
    IF MatchingBlocks(a, alo, ahi, b, blo, bhi) = {} THEN 0
    ELSE LET blk == find_longest_match(a, alo, ahi, b, blo, bhi)
         IN  blk[3]
             + matched_characters(a, alo, blk[1], b, blo, blk[2])
             + matched_characters(a, blk[1] + blk[3], ahi, b, blk[2] + blk[3], bhi)

\* similarity_score: SequenceMatcher(None, name1.lower(), name2.lower()).ratio()
\* as the fraction <<2 * matches, length>>
similarity_score(name1, name2) ==
    << 2 * matched_characters(str_lower(name1), 0, Len(name1), str_lower(name2), 0, Len(name2)),
       Len(name1) + Len(name2) >>

SimilarityThreshold == 85

\* similarity >= threshold; the ratio of two empty names is 1.0
similar_enough(similarity) ==
    similarity[2] = 0 \/ 100 * similarity[1] >= SimilarityThreshold * similarity[2]

\* similarity x is greater than similarity y
similarity_greater(x, y) ==
    IF x[2] = 0 \/ y[2] = 0 THEN x[2] = 0 /\ y[2] # 0 /\ y[1] < y[2]
    ELSE x[1] * y[2] > y[1] * x[2]

MaxSpeeches == 5

Lee == <<"L","e","e">>

\* 'Lee', 'Thy Lee', 'the the Lee', 'The Lee', 'Mr. LEE.', 'The SPEAKER'
SpeakerNames ==
    { Lee,
      <<"T","h","y"," ">> \o Lee,
      <<"t","h","e"," ","t","h","e"," ">> \o Lee,
      <<"T","h","e"," ">> \o Lee,
      <<"M","r","."," ","L","E","E",".">>,
      <<"T","h","e"," ","S","P","E","A","K","E","R">> }

Houses == {"HOUSE OF COMMONS", "HOUSE OF LORDS"}

Dates == {"1834-02-04"}

\* normalize_name, extract_surname and similarity_score on the names of the
\* speeches, computed once
NormalizedNameTable == { <<name, normalize_name(name)>> : name \in SpeakerNames }

normalized_name(name) == (CHOOSE entry \in NormalizedNameTable : entry[1] = name)[2]

NormalizedNames == { entry[2] : entry \in NormalizedNameTable }

SurnameTable == { <<normalized, str_lower(extract_surname(normalized))>> :
                    normalized \in NormalizedNames }

surname_lower(normalized) == (CHOOSE entry \in SurnameTable : entry[1] = normalized)[2]

SimilarityTable ==
    { <<pair, similarity_score(pair[1], pair[2])>> : pair \in NormalizedNames \X NormalizedNames }

similarity(name1, name2) ==
    (CHOOSE entry \in SimilarityTable : entry[1] = <<name1, name2>>)[2]

functional_titles ==
    { <<"T","h","e"," ","S","P","E","A","K","E","R">>,
      <<"T","h","e"," ","C","H","A","I","R","M","A","N">>,
      <<"T","h","e"," ","C","H","A","N","C","E","L","L","O","R">>,
      <<"T","h","e"," ","C","L","E","R","K">>,
      <<"T","h","e"," ","L","O","R","D"," ","C","H","A","N","C","E","L","L","O","R">>,
      <<"T","h","e"," ","A","T","T","O","R","N","E","Y"," ","G","E","N","E","R","A","L">>,
      <<"T","h","e"," ","S","O","L","I","C","I","T","O","R"," ","G","E","N","E","R","A","L">>,
      <<"T","h","e"," ","S","E","C","R","E","T","A","R","Y">>,
      <<"T","h","e"," ","T","R","E","A","S","U","R","E","R">>,
      <<"T","h","e"," ","P","R","E","S","I","D","E","N","T">> }

\* is_functional_title
is_functional_title(name) == normalized_name(name) \in functional_titles

NoSpeaker == <<"None">>

\* find_matching_speaker, lines 142-151: the candidates in the order of the registry
fuzzy_candidates(normalized) ==
    LET close(entry) ==
            /\ surname_lower(normalized) = surname_lower(entry.name)
            /\ similar_enough(similarity(normalized, entry.name))
        found == SelectSeq(speaker_registry, close)
    IN  [k \in 1..Len(found) |->
            [speaker_id |-> found[k].speaker_id, name |-> found[k].name,
             similarity |-> similarity(normalized, found[k].name)]]

\* candidates.sort(key=lambda x: x[2], reverse=True); candidates[0]: the sort
\* is stable, the first of the most similar ones comes first
best_match(candidates) ==
    candidates[CHOOSE k \in 1..Len(candidates) :
                  /\ \A j \in 1..Len(candidates) :
                         ~similarity_greater(candidates[j].similarity, candidates[k].similarity)
                  /\ \A j \in 1..(k - 1) :
                         similarity_greater(candidates[k].similarity, candidates[j].similarity)]

\* the names under which the registry has an entry
registered(name) == \E k \in 1..Len(speaker_registry) : speaker_registry[k].name = name

registry_id(name) ==
    speaker_registry[CHOOSE k \in 1..Len(speaker_registry) :
                         speaker_registry[k].name = name].speaker_id

\* find_matching_speaker: the returned speaker_id
find_matching_speaker(name) ==
    LET normalized == normalized_name(name)
        known == { k \in 1..Len(name_variations) : normalized \in name_variations[k].names }
    IN  IF registered(normalized) THEN registry_id(normalized)
        ELSE IF known # {}
        THEN name_variations[CHOOSE k \in known : \A j \in known : k <= j].speaker_id
        ELSE IF fuzzy_candidates(normalized) # <<>>
        THEN best_match(fuzzy_candidates(normalized)).speaker_id
        ELSE NoSpeaker

\* find_matching_speaker, lines 159-168: the call flags an ambiguous case
flags_ambiguous(name) ==
    LET normalized == normalized_name(name)
    IN  /\ ~registered(normalized)
        /\ \A k \in 1..Len(name_variations) : normalized \notin name_variations[k].names
        /\ Len(fuzzy_candidates(normalized)) > 1

\* self.name_variations[speaker_id].add(normalized); ....add(name)
add_variations(speaker_id, normalized, name) ==
    IF \E k \in 1..Len(name_variations) : name_variations[k].speaker_id = speaker_id
    THEN [k \in 1..Len(name_variations) |->
             IF name_variations[k].speaker_id = speaker_id
             THEN [name_variations[k] EXCEPT !.names = @ \cup {normalized, name}]
             ELSE name_variations[k]]
    ELSE Append(name_variations, [speaker_id |-> speaker_id, names |-> {normalized, name}])

put_metadata(speaker_id, entry) ==
    [id \in DOMAIN speaker_metadata \cup {speaker_id} |->
        IF id = speaker_id THEN entry ELSE speaker_metadata[id]]

\* one iteration of the loop of process_speeches (lines 252-262) with its
\* call of assign_speaker_id(name, house, date)
AssignSpeakerId ==
    /\ pc = "assign"
    /\ Len(speeches) < MaxSpeeches
    /\ \E name \in SpeakerNames, house \in Houses, date \in Dates :
        LET normalized == normalized_name(name)
            existing_id == find_matching_speaker(name)
        IN  IF is_functional_title(name)
            THEN LET speaker_id == <<"FUNCTIONAL", next_id>>
                 IN  /\ IF ~registered(normalized)
                        THEN /\ next_id' = next_id + 1
                             /\ speaker_registry' = Append(speaker_registry,
                                    [name |-> normalized, speaker_id |-> speaker_id])
                             /\ speaker_metadata' = put_metadata(speaker_id,
                                    [canonical_name |-> normalized, type |-> "functional_title",
                                     first_seen |-> date, houses |-> {house}])
                             /\ speeches' = Append(speeches,
                                    [speaker |-> name, speaker_id |-> speaker_id])
                        ELSE /\ UNCHANGED <<next_id, speaker_registry, speaker_metadata>>
                             /\ speeches' = Append(speeches,
                                    [speaker |-> name, speaker_id |-> registry_id(normalized)])
                     /\ speaker_stats' = [speaker_stats EXCEPT !.total_speeches = @ + 1]
                     /\ UNCHANGED <<name_variations, ambiguous_cases>>
            ELSE IF existing_id # NoSpeaker
            THEN /\ name_variations' = add_variations(existing_id, normalized, name)
                 /\ speaker_metadata' =
                        [speaker_metadata EXCEPT ![existing_id].houses = @ \cup {house}]
                 /\ ambiguous_cases' =
                        IF flags_ambiguous(name)
                        THEN Append(ambiguous_cases,
                                    [new_name |-> name, normalized |-> normalized,
                                     candidates |-> fuzzy_candidates(normalized)])
                        ELSE ambiguous_cases
                 /\ speaker_stats' = [speaker_stats EXCEPT
                                 !.ambiguous_cases = IF flags_ambiguous(name) THEN @ + 1 ELSE @,
                                 !.name_variations = @ + 1,
                                 !.total_speeches = @ + 1]
                 /\ speeches' = Append(speeches, [speaker |-> name, speaker_id |-> existing_id])
                 /\ UNCHANGED <<next_id, speaker_registry>>
            ELSE LET speaker_id == <<"SPEAKER", next_id>>
                 IN  /\ next_id' = next_id + 1
                     /\ speaker_registry' = Append(speaker_registry,
                            [name |-> normalized, speaker_id |-> speaker_id])
                     /\ name_variations' = add_variations(speaker_id, normalized, name)
                     /\ speaker_metadata' = put_metadata(speaker_id,
                            [canonical_name |-> normalized, type |-> "person",
                             first_seen |-> date, houses |-> {house}])
                     /\ speaker_stats' = [speaker_stats EXCEPT !.unique_speakers = @ + 1,
                                                                !.total_speeches = @ + 1]
                     /\ speeches' = Append(speeches, [speaker |-> name, speaker_id |-> speaker_id])
                     /\ UNCHANGED ambiguous_cases
    /\ UNCHANGED <<pc, correctorVars, exceptSpeaker>>

InitSpeakers ==
    /\ pc = "assign"
    /\ CorrectorIdle
    /\ ExtraIdle

NextSpeakers == AssignSpeakerId

SpecSpeakers == InitSpeakers /\ [][NextSpeakers]_vars

-----------------------------------------------------------------------------
(* speeches_from_pages *)

\* str.upper(), as a sequence
upper_of(s) == SubSeq(str_upper(s), 1, Len(s))

str_strip(s) == str_rstrip(str_lstrip(s), {" ", "\n"})

\* str.splitlines()
RECURSIVE splitlines(_)
splitlines(s) ==
    IF s = <<>> THEN <<>>
    ELSE IF \E i \in 1..Len(s) : s[i] = "\n"
    THEN LET i == CHOOSE i \in 1..Len(s) : s[i] = "\n" /\ \A j \in 1..(i - 1) : s[j] # "\n"
         IN  <<SubSeq(s, 1, i - 1)>> \o splitlines(SubSeq(s, i + 1, Len(s)))
    ELSE <<s>>

\* sep.join(parts)
RECURSIVE str_join(_, _)
str_join(sep, parts) ==
    IF parts = <<>> THEN <<>>
    ELSE IF Len(parts) = 1 THEN parts[1]
    ELSE parts[1] \o sep \o str_join(sep, Tail(parts))

\* the loop of split_markdown_into_paragraphs from the k-th line on
RECURSIVE group_lines(_, _, _, _)
group_lines(lines, k, buf, acc) ==
    IF k > Len(lines)
    THEN IF buf # <<>> THEN Append(acc, str_strip(str_join(<<"\n">>, buf))) ELSE acc
    ELSE IF str_strip(lines[k]) = <<>>
    THEN IF buf # <<>>
         THEN group_lines(lines, k + 1, <<>>, Append(acc, str_strip(str_join(<<"\n">>, buf))))
         ELSE group_lines(lines, k + 1, buf, acc)
    ELSE group_lines(lines, k + 1, Append(buf, lines[k]), acc)

split_markdown_into_paragraphs(md) == group_lines(splitlines(md), 1, <<>>, <<>>)

HOUSE_OF == <<"H","O","U","S","E"," ","O","F"," ">>

HOUSE_OF_LORDS == <<"H","O","U","S","E"," ","O","F"," ","L","O","R","D","S">>

HOUSE_OF_COMMONS == <<"H","O","U","S","E"," ","O","F"," ","C","O","M","M","O","N","S">>

\* 'HOUSE OF LORDS.'
house_of_lords == <<"H","O","U","S","E"," ","O","F"," ","L","O","R","D","S",".">>

\* 'HOUSE OF COMMONS, 4 DIE FEBRUARII, 1834.'
house_and_date == <<"H","O","U","S","E"," ","O","F"," ","C","O","M","M","O","N","S",","," ","4"," ","D","I","E"," ","F","E","B","R","U","A","R","I","I",","," ","1","8","3","4",".">>

\* 'CORN LAWS.'
corn_laws == <<"C","O","R","N"," ","L","A","W","S",".">>

\* 'MALT TAX.'
malt_tax == <<"M","A","L","T"," ","T","A","X",".">>

\* 'Mr. HUME.—I rise.'
hume_rises == <<"M","r","."," ","H","U","M","E",".","--","I"," ","r","i","s","e",".">>

\* 'Mr. HUME.—Aye.\nMr. PEEL.—No.'
hume_and_peel == <<"M","r","."," ","H","U","M","E",".","--","A","y","e",".","\n","M","r","."," ","P","E","E","L",".","--","N","o",".">>

\* 'Mr. PEEL moved it.'
peel_moved == <<"M","r","."," ","P","E","E","L"," ","m","o","v","e","d"," ","i","t",".">>

\* 'He sat down.'
he_sat_down == <<"H","e"," ","s","a","t"," ","d","o","w","n",".">>

\* 'Mr. HUME.—'
hume_alone == <<"M","r","."," ","H","U","M","E",".","--">>

\* 'Mr. HUME.- Aye.'
hume_hyphen == <<"M","r","."," ","H","U","M","E",".","-"," ","A","y","e",".">>

\* detect_simple_house: HOUSE_HEADING_RE on the paragraph
detect_simple_house(paragraph) ==
    LET up == upper_of(str_strip(paragraph))
    IN  IF up \in {HOUSE_OF_COMMONS, HOUSE_OF_COMMONS \o <<".">>} THEN HOUSE_OF_COMMONS
        ELSE IF up \in {HOUSE_OF_LORDS, HOUSE_OF_LORDS \o <<".">>} THEN HOUSE_OF_LORDS
        ELSE NoValue

\* "DIE" in tokens, the tokens being what [.,;:--\-]+ and whitespace separate
has_die_token(up) ==
    LET separates(c) == IsSpace(c) \/ c \in {".", ",", ";", ":", "--", "-"}
    IN  \E a \in 0..(Len(up) - 3) :
            /\ StartsWithAt(up, <<"D","I","E">>, a)
            /\ (a = 0 \/ separates(up[a]))
            /\ (a + 3 = Len(up) \/ separates(up[a + 4]))

has_digit(up) == \E i \in 1..Len(up) : up[i] \in {"0","1","2","3","4","5","6","7","8","9"}

\* parse_latin_date_line on the paragraphs of the pages that pass the guards
\* of detect_latin_house_and_date
parse_latin_date_line(line) ==
    IF line = house_and_date THEN <<"1","8","3","4","-","0","2","-","0","4">> ELSE NoValue

\* detect_latin_house_and_date: (house, date_raw, date_iso)
detect_latin_house_and_date(paragraph) ==
    LET stripped == str_strip(paragraph)
        up   == upper_of(stripped)
        house == IF StartsWithAt(up, HOUSE_OF_LORDS, 0) THEN HOUSE_OF_LORDS
                 ELSE IF StartsWithAt(up, HOUSE_OF_COMMONS, 0) THEN HOUSE_OF_COMMONS
                 ELSE NoValue
    IN  IF \/ stripped = <<>>
           \/ ~StartsWithAt(up, HOUSE_OF, 0)
           \/ house = NoValue
           \/ ~has_die_token(up)
           \/ ~has_digit(up)
           \/ parse_latin_date_line(stripped) = NoValue
        THEN <<NoValue, NoValue, NoValue>>
        ELSE <<house, stripped, parse_latin_date_line(stripped)>>

\* is_all_caps_heading
is_all_caps_heading(paragraph) ==
    LET stripped == str_strip(paragraph)
        letters == SelectSeq(stripped, IsAlpha)
    IN  /\ stripped # <<>>
        /\ \A i \in 1..Len(stripped) : stripped[i] # "\n"
        /\ letters # <<>>
        /\ str_isupper(letters)
        /\ ~StartsWithAt(upper_of(stripped), HOUSE_OF, 0)

\* split_paragraph_into_speeches on the paragraphs of the pages: the
\* (speaker, content) of each match of SPEAKER_HEADING_RE_MULTILINE that has content
split_paragraph_into_speeches(paragraph) ==
    CASE paragraph = hume_rises -> << <<<<"M","r","."," ","H","U","M","E",".">>, <<"I"," ","r","i","s","e",".">>>> >>
      [] paragraph = hume_and_peel -> << <<<<"M","r","."," ","H","U","M","E",".">>, <<"A","y","e",".">>>>,
                                         <<<<"M","r","."," ","P","E","E","L",".">>, <<"N","o",".">>>> >>
      [] OTHER -> <<>>

\* detect_speaker on the paragraphs of the pages
detect_speaker(paragraph) ==
    CASE paragraph \in {hume_rises, hume_and_peel, hume_alone, hume_hyphen} -> <<"M","r","."," ","H","U","M","E">>
      [] paragraph = peel_moved -> <<"M","r","."," ","P","E","E","L">>
      [] OTHER -> NoValue

\* SPEAKER_HEADING_RE.match(p) on the paragraphs of the pages: m.end(), -1 for no match
heading_end(paragraph) ==
    CASE paragraph \in {hume_rises, hume_and_peel, hume_alone} -> 10
      [] paragraph = hume_hyphen -> 11
      [] OTHER -> -1

MaxSpeakerLen == 80

\* `if current_speech and current_speech["text"].strip(): speeches.append(current_speech)`
flush_speech(emitted, current) ==
    IF current # <<>> /\ str_strip(current[1].text) # <<>> THEN Append(emitted, current[1])
    ELSE emitted

\* start_new_speech: the new current_speech
start_new_speech(speaker, page_index) ==
    << [house |-> current_house, date_raw |-> current_date_raw, date_iso |-> current_date_iso,
        debate_title |-> current_debate, speaker |-> speaker, pages |-> {page_index},
        text |-> <<>>] >>

\* an append_to_current_speech that keeps the last fragment only
append_to_current_speech_last(current, text_fragment, page_index) ==
    IF current = <<>> THEN current
    ELSE IF str_strip(text_fragment) = <<>> THEN current
    ELSE << [current[1] EXCEPT !.text = str_strip(text_fragment),
                               !.pages = @ \cup {page_index}] >>

\* append_to_current_speech: current_speech after the call
append_to_current_speech(current, text_fragment, page_index) ==
    IF current = <<>> THEN current
    ELSE IF str_strip(text_fragment) = <<>> THEN current
    ELSE << [current[1] EXCEPT
                !.text = IF @ # <<>> THEN @ \o <<"\n", "\n">> \o str_strip(text_fragment)
                         ELSE str_strip(text_fragment),
                !.pages = @ \cup {page_index}] >>

\* lines 647-649: `for speaker, content in chunks`, on <<speeches, current_speech>>
RECURSIVE take_chunks(_, _, _, _)
take_chunks(chunks, page_index, emitted, current) ==
    IF chunks = <<>> THEN <<emitted, current>>
    ELSE take_chunks(Tail(chunks), page_index, flush_speech(emitted, current),
                     append_to_current_speech(start_new_speech(Head(chunks)[1], page_index),
                                              Head(chunks)[2], page_index))

\* sorted(pages, key=lambda p: p.get("global_index", p.get("index", 0))): the
\* sort is stable
RECURSIVE sorted_by_index(_)
sorted_by_index(ps) ==
    IF ps = <<>> THEN <<>>
    ELSE LET rest == sorted_by_index(SubSeq(ps, 1, Len(ps) - 1))
             last == ps[Len(ps)]
             n    == Cardinality({ k \in 1..Len(rest) : rest[k].index <= last.index })
         IN  SubSeq(rest, 1, n) \o <<last>> \o SubSeq(rest, n + 1, Len(rest))

\* lines 597-600
SortPages ==
    /\ pc = "segment"
    /\ pages_sorted' = sorted_by_index(seg_pages)
    /\ pc' = "paragraphs"
    /\ UNCHANGED <<seg_pages, page_k, paragraphs, para_i, current_house, current_date_raw,
                   current_date_iso, current_debate, current_speech, seg_speeches,
                   correctorVars, exceptSegment>>

\* lines 602-606: the loop takes the next page
TakePage ==
    /\ pc = "paragraphs"
    /\ para_i = Len(paragraphs)
    /\ page_k < Len(pages_sorted)
    /\ page_k' = page_k + 1
    /\ paragraphs' = split_markdown_into_paragraphs(pages_sorted[page_k + 1].markdown)
    /\ para_i' = 0
    /\ UNCHANGED <<pc, seg_pages, pages_sorted, current_house, current_date_raw,
                   current_date_iso, current_debate, current_speech, seg_speeches,
                   correctorVars, exceptSegment>>

\* lines 608-673: one iteration of `for para in paragraphs`
TakeParagraph ==
    /\ pc = "paragraphs"
    /\ para_i < Len(paragraphs)
    /\ para_i' = para_i + 1
    /\ LET p == str_strip(paragraphs[para_i + 1])
           page_index == pages_sorted[page_k].index
           latin == detect_latin_house_and_date(p)
           house == detect_simple_house(p)
           chunks == split_paragraph_into_speeches(p)
           speaker == IF detect_speaker(p) # NoValue /\ Len(detect_speaker(p)) > MaxSpeakerLen
                      THEN NoValue ELSE detect_speaker(p)
           content == IF heading_end(p) >= 0 THEN str_strip(SliceFrom(p, heading_end(p))) ELSE p
       IN  IF p = <<>>
           THEN UNCHANGED <<current_house, current_date_raw, current_date_iso, current_debate,
                            current_speech, seg_speeches>>
           ELSE IF latin[1] # NoValue \/ latin[2] # NoValue \/ latin[3] # NoValue
           THEN /\ seg_speeches' = flush_speech(seg_speeches, current_speech)
                /\ current_speech' = <<>>
                /\ current_house' = IF latin[1] # NoValue THEN latin[1] ELSE current_house
                /\ IF latin[2] # NoValue \/ latin[3] # NoValue
                   THEN current_date_raw' = latin[2] /\ current_date_iso' = latin[3]
                   ELSE UNCHANGED <<current_date_raw, current_date_iso>>
                /\ UNCHANGED current_debate
           ELSE IF house # NoValue
           THEN /\ seg_speeches' = flush_speech(seg_speeches, current_speech)
                /\ current_speech' = <<>>
                /\ current_house' = house
                /\ UNCHANGED <<current_date_raw, current_date_iso, current_debate>>
           ELSE IF is_all_caps_heading(p)
           THEN /\ current_debate' = p
                /\ UNCHANGED <<current_house, current_date_raw, current_date_iso,
                               current_speech, seg_speeches>>
           ELSE IF chunks # <<>>
           THEN /\ seg_speeches' = take_chunks(chunks, page_index, seg_speeches, current_speech)[1]
                /\ current_speech' = take_chunks(chunks, page_index, seg_speeches, current_speech)[2]
                /\ UNCHANGED <<current_house, current_date_raw, current_date_iso, current_debate>>
           ELSE IF speaker # NoValue
           THEN /\ seg_speeches' = flush_speech(seg_speeches, current_speech)
                /\ current_speech' = append_to_current_speech(
                                         start_new_speech(speaker, page_index), content, page_index)
                /\ UNCHANGED <<current_house, current_date_raw, current_date_iso, current_debate>>
           ELSE /\ current_speech' = append_to_current_speech(current_speech, p, page_index)
                /\ UNCHANGED <<current_house, current_date_raw, current_date_iso, current_debate,
                               seg_speeches>>
    /\ UNCHANGED <<pc, seg_pages, pages_sorted, page_k, paragraphs, correctorVars, exceptSegment>>

\* lines 675-679
FlushFinalSpeech ==
    /\ pc = "paragraphs"
    /\ para_i = Len(paragraphs)
    /\ page_k = Len(pages_sorted)
    /\ seg_speeches' = flush_speech(seg_speeches, current_speech)
    /\ pc' = "segmented"
    /\ UNCHANGED <<seg_pages, pages_sorted, page_k, paragraphs, para_i, current_house,
                   current_date_raw, current_date_iso, current_debate, current_speech,
                   correctorVars, exceptSegment>>

SegmentParagraphs ==
    { house_of_lords, house_and_date, corn_laws, malt_tax, hume_and_peel, peel_moved,
      he_sat_down, hume_alone }

MaxParagraphs == 3

\* the markdown of a page: paragraphs with a blank line between them
page_markdown(ps) == str_join(<<"\n", "\n">>, ps)

\* the argument `pages`: up to MaxParagraphs paragraphs, on one page or split
\* over two pages whose indices are in order or out of order
InitSegment ==
    /\ pc = "segment"
    /\ CorrectorIdle
    /\ BootIdle
    /\ LevIdle
    /\ IndexIdle
    /\ TokenIdle
    /\ SpeakerIdle
    /\ \E ps \in SeqsUpTo(SegmentParagraphs, MaxParagraphs) :
         \/ seg_pages = <<[index |-> 1, markdown |-> page_markdown(ps)]>>
         \/ \E k \in 1..(Len(ps) - 1), ix \in {<<1, 2>>, <<2, 1>>} :
              seg_pages = <<[index |-> ix[1], markdown |-> page_markdown(SubSeq(ps, 1, k))],
                            [index |-> ix[2],
                             markdown |-> page_markdown(SubSeq(ps, k + 1, Len(ps)))]>>
    /\ pages_sorted = <<>>
    /\ page_k = 0
    /\ paragraphs = <<>>
    /\ para_i = 0
    /\ current_house = NoValue
    /\ current_date_raw = NoValue
    /\ current_date_iso = NoValue
    /\ current_debate = NoValue
    /\ current_speech = <<>>
    /\ seg_speeches = <<>>

NextSegment ==
    \/ SortPages
    \/ TakePage
    \/ TakeParagraph
    \/ FlushFinalSpeech

SpecSegment == InitSegment /\ [][NextSegment]_vars

-----------------------------------------------------------------------------
(* The edit-distance functions on their own *)

LevAlphabet == {"a", "b"}

MaxStringLen == 3

LevStrings == UNION {[1..n -> LevAlphabet] : n \in 0..MaxStringLen}

\* one call of each of the three functions on the same pair of strings
ComputeDistances ==
    /\ pc = "measure"
    /\ lev_distances' = <<levenshtein_distance(lev_s1, lev_s2),
                          discover_levenshtein_distance(lev_s1, lev_s2),
                          _edit_distance(lev_s1, lev_s2)>>
    /\ pc' = "measured"
    /\ UNCHANGED <<correctorVars, exceptLev, lev_s1, lev_s2>>

InitLevenshtein ==
    /\ pc = "measure"
    /\ CorrectorIdle
    /\ BootIdle
    /\ IndexIdle
    /\ TokenIdle
    /\ SpeakerIdle
    /\ SegmentIdle
    /\ lev_s1 \in LevStrings
    /\ lev_s2 \in LevStrings
    /\ lev_distances = <<>>

NextLevenshtein == ComputeDistances

SpecLevenshtein == InitLevenshtein /\ [][NextLevenshtein]_vars

-----------------------------------------------------------------------------
(* DataBootstrapper.setup_historical_dictionary *)

\* local `historical_words`: the built-in list written when the download fails
fallback_historical_words ==
    <<"shew", "shewn", "shewed", "connexion", "compleat", "publick", "musick",
      "favour", "honour", "colour", "labour", "neighbour", "centre", "theatre",
      "metre", "travelled", "marvellous">>

\* a check that never finds the file
dict_path_exists_never(file) == FALSE

\* dict_path.exists()
dict_path_exists(file) == file # NoFile

\* the values a JSON document can hold as a key or as the 'word' of an entry,
\* in the order sorted() gives them within one type
WordOrder == <<"1", "2", "abandon", "shew", "zeal">>

StrWord(v) == [type |-> "str", v |-> v]

IntWord(v) == [type |-> "int", v |-> v]

\* a JSON array or object as the value of 'word': it cannot be added to a set
UnhashableWord == [type |-> "list", v |-> ""]

NoWord == [type |-> "none", v |-> ""]

\* the entries of a JSON array: objects with or without 'word', or another value
JsonEntries ==
    {[kind |-> "dict", has_word |-> TRUE, word |-> w] :
        w \in {StrWord("shew"), StrWord("abandon"), IntWord("1"), UnhashableWord}}
    \cup {[kind |-> "dict", has_word |-> FALSE, word |-> NoWord],
          [kind |-> "str", has_word |-> FALSE, word |-> NoWord]}

MaxEntries == 2

JsonDocument(kind, keys, entries) == [kind |-> kind, keys |-> keys, entries |-> entries]

\* what response.read() can hold: no JSON, an object, an array, another value
JsonDocuments ==
    {JsonDocument("invalid", {}, <<>>), JsonDocument("other", {}, <<>>)}
    \cup {JsonDocument("dict", keys, <<>>) : keys \in SUBSET {"abandon", "shew", "zeal"}}
    \cup {JsonDocument("list", {}, entries) :
            entries \in UNION {[1..n -> JsonEntries] : n \in 0..MaxEntries}}

\* urlopen raises, read raises, or the body arrives
Responses ==
    {[status |-> st, data |-> JsonDocument("invalid", {}, <<>>)] :
        st \in {"URLError", "timeout", "read failed"}}
    \cup {[status |-> "ok", data |-> d] : d \in JsonDocuments}

\* the entries whose 'word' is added to `words`
word_entries(data) ==
    {i \in 1..Len(data.entries) :
        data.entries[i].kind = "dict" /\ data.entries[i].has_word}

\* words.add(entry['word']) raises TypeError
add_raises(data) ==
    /\ data.kind = "list"
    /\ \E i \in word_entries(data) : data.entries[i].word = UnhashableWord

\* local `words` after lines 219-225
downloaded_words(data) ==
    IF data.kind = "dict" THEN {StrWord(k) : k \in data.keys}
    ELSE IF data.kind = "list" THEN {data.entries[i].word : i \in word_entries(data)}
    ELSE {}

\* sorted(words) raises TypeError on words of two types
sorted_raises(words) == \E a \in words, b \in words : a.type # b.type

WordRank(w) == CHOOSE i \in 1..Len(WordOrder) : WordOrder[i] = w.v

\* the lines written for sorted(words)
RECURSIVE sorted_lines(_)
sorted_lines(words) ==
    IF words = {} THEN <<>>
    ELSE LET first == CHOOSE w \in words : \A x \in words : WordRank(w) <= WordRank(x)
         IN  <<first.v>> \o sorted_lines(words \ {first})

\* an exception is raised inside the try block
try_raises(r) ==
    \/ r.status # "ok"
    \/ r.data.kind = "invalid"
    \/ add_raises(r.data)
    \/ sorted_raises(downloaded_words(r.data))

\* lines 202-206: the file is there, nothing to do
SetupCheck ==
    /\ pc = "setup"
    /\ pc' = IF dict_path_exists(dict_file) THEN "returned" ELSE "urlopen"
    /\ UNCHANGED <<correctorVars, extraVars>>

\* line 215: the only call of urlopen
UrlOpen ==
    /\ pc = "urlopen"
    /\ urlopen_calls' = urlopen_calls + 1
    /\ pc' = IF response.status \in {"URLError", "timeout"} THEN "fallback" ELSE "read"
    /\ UNCHANGED <<correctorVars, dict_file, response, exceptBoot>>

\* lines 216-233: json.loads, collecting the words, open(dict_path, 'w') and
\* the writes; open has already truncated the file when sorted() raises
ReadAndWrite ==
    /\ pc = "read"
    /\ LET data == response.data
           words == downloaded_words(data)
       IN  IF response.status # "ok" \/ data.kind = "invalid" \/ add_raises(data)
           THEN pc' = "fallback" /\ dict_file' = dict_file
           ELSE IF sorted_raises(words)
           THEN pc' = "fallback" /\ dict_file' = <<>>
           ELSE pc' = "returned" /\ dict_file' = sorted_lines(words)
    /\ UNCHANGED <<correctorVars, response, urlopen_calls, exceptBoot>>

\* lines 234-250: the except clause and the fallback list
WriteFallback ==
    /\ pc = "fallback"
    /\ dict_file' = fallback_historical_words
    /\ pc' = "returned"
    /\ UNCHANGED <<correctorVars, response, urlopen_calls, exceptBoot>>

\* the file before the call: missing, empty, or written by an earlier run
DictFiles == {NoFile, <<>>, <<"abandon", "zeal">>, fallback_historical_words}

InitBootstrap ==
    /\ pc = "setup"
    /\ CorrectorIdle
    /\ LevIdle
    /\ IndexIdle
    /\ TokenIdle
    /\ SpeakerIdle
    /\ SegmentIdle
    /\ dict_file \in DictFiles
    /\ response \in Responses
    /\ urlopen_calls = 0

NextBootstrap == SetupCheck \/ UrlOpen \/ ReadAndWrite \/ WriteFallback

\* the call is one sequential run: every step that can be taken is taken
SpecBootstrap == InitBootstrap /\ [][NextBootstrap]_vars /\ WF_vars(NextBootstrap)

----------------------------------------------------------------------------
(* Properties of _apply_corrections *)

\* what the claims call a qualifying candidate: it has a suggestion and the
\* confidence of the first one is at least the threshold
Qualifies(e) ==
    /\ Len(e.suggested_corrections) >= 1
    /\ e.suggested_corrections[1][2] >= threshold

Span(e) == <<e.position, e.position + Len(e.original_word)>>

\* the offsets of the input text inside the span of a qualifying candidate
Covered(i) ==
    \E k \in 1..Len(errors) :
        Qualifies(errors[k]) /\ Span(errors[k])[1] <= i /\ i < Span(errors[k])[2]

\* the maximal runs [a, b) of the input text outside those spans, by offset
RECURSIVE UntouchedRuns(_)
UntouchedRuns(a) ==
    IF a >= Len(markdown) THEN <<>>
    ELSE IF Covered(a) THEN UntouchedRuns(a + 1)
    ELSE LET b == CHOOSE b \in (a + 1)..Len(markdown) :
                      /\ \A i \in a..(b - 1) : ~Covered(i)
                      /\ (b = Len(markdown) \/ Covered(b))
         IN  <<<<a, b>>>> \o UntouchedRuns(b)

\* the runs are found in t from offset `from` on, in their order, the run that
\* starts the input starting t and the run that ends the input ending t
RECURSIVE RunsKept(_, _, _)
RunsKept(t, from, runs) ==
    IF runs = <<>> THEN TRUE
    ELSE LET a == Head(runs)[1]
             b == Head(runs)[2]
         IN  \E k \in from..(Len(t) - (b - a)) :
                 /\ Slice(t, k, k + (b - a)) = Slice(markdown, a, b)
                 /\ (a = 0 => k = 0)
                 /\ (b = Len(markdown) => k + (b - a) = Len(t))
                 /\ RunsKept(t, k + (b - a), Tail(runs))

SpansDisjoint ==
    \A j, k \in 1..Len(errors) :
        (j # k /\ Qualifies(errors[j]) /\ Qualifies(errors[k]))
            => (Span(errors[j])[2] <= Span(errors[k])[1] \/ Span(errors[k])[2] <= Span(errors[j])[1])

\* the input text with every qualifying span replaced by its first suggestion
RECURSIVE Rebuilt(_, _)
Rebuilt(a, descending) ==
    IF descending = <<>> THEN SliceFrom(markdown, a)
    ELSE LET e == descending[Len(descending)]
         IN  Slice(markdown, a, e.position) \o e.suggested_corrections[1][1]
             \o Rebuilt(Span(e)[2], SubSeq(descending, 1, Len(descending) - 1))

\* C1: when _apply_corrections returns, every character of the input text
\* outside the spans [position, position + len(original_word)) of the applied
\* corrections is in the result, unchanged and in the same order, and each
\* applied span holds its top suggestion (up to the case adjustment)
C1_OffsetSafety ==
    pc = "done" =>
        /\ RunsKept(text, 0, UntouchedRuns(0))
        /\ SpansDisjoint =>
               str_lower(text) =
                   str_lower(Rebuilt(0, SelectSeq(errors_sorted, Qualifies)))

\* C2: a candidate is replaced only if it has a suggestion whose first
\* confidence is >= threshold: `applied` counts exactly the qualifying
\* candidates met so far, a candidate that does not qualify leaves text and
\* count alone, and with no qualifying candidate the input text is returned
\* with count 0
C2_ThresholdGating ==
    /\ [](pc \in {"loop", "done"} =>
            LET met == { k \in 1..idx : Qualifies(errors_sorted[k]) }
            IN  /\ applied = Cardinality(met)
                /\ met = {} => text = markdown)
    /\ [][(pc = "loop" /\ idx < Len(errors_sorted) /\ ~Qualifies(errors_sorted[idx + 1]))
              => (text' = text /\ applied' = applied)]_vars

C2_Witness ==
    /\ pc = "done"
    /\ Len(errors_sorted) = 2
    /\ applied = 1
    /\ text # markdown
    /\ \E k \in 1..2 : ~Qualifies(errors_sorted[k]) /\ errors_sorted[k].suggested_corrections # <<>>

\* C3: the candidates are visited in non-increasing position order, and when
\* the candidate at position p is about to be replaced the prefix text[0:p]
\* is still the prefix of the input text
C3_DescendingOrder ==
    pc = "loop" =>
        /\ \A j, k \in 1..Len(errors_sorted) :
               j < k => errors_sorted[j].position >= errors_sorted[k].position
        /\ (idx < Len(errors_sorted) /\ Qualifies(errors_sorted[idx + 1]))
               => SliceTo(text, errors_sorted[idx + 1].position)
                      = SliceTo(markdown, errors_sorted[idx + 1].position)

\* a replacement that changed the length has been made, and a candidate at a
\* lower position is about to be replaced
C3_Witness ==
    /\ pc = "loop"
    /\ idx = 1
    /\ applied = 1
    /\ Len(text) # Len(markdown)
    /\ idx < Len(errors_sorted)
    /\ Qualifies(errors_sorted[2])
    /\ errors_sorted[2].position < errors_sorted[1].position

\* the case adjustment as the claim words it
AdjustedCase(w, s) ==
    IF \A i \in 1..Len(w) : IsUpperChar(w[i])
    THEN str_upper(s)
    ELSE IF IsUpperChar(w[1])
         THEN <<ToUpperChar(s[1])>> \o Tail(s)
         ELSE s

\* C5: the text written for suggestion s over original word w is s in upper
\* case if w is all upper-case, s with its first letter capitalised if w only
\* starts with an upper-case letter, and s itself otherwise
C5_CapitalizationPreserved ==
    [][(pc = "loop" /\ applied' = applied + 1) =>
          LET e == errors_sorted[idx + 1]
          IN  text' = SliceTo(text, e.position)
                      \o AdjustedCase(e.original_word, e.suggested_corrections[1][1])
                      \o SliceFrom(text, e.position + Len(e.original_word))]_vars

\* C7: for the unit 'He cau see it.' with threshold 0.8, an oracle that
\* rejects 'cau' and accepts 'can' gives exactly 'He can see it.'
C7_HeCanSeeIt ==
    (/\ pc = "done"
     /\ markdown = he_cau_see_it
     /\ threshold = 8000
     /\ check_word(can)
     /\ ~check_word(cau))
        => /\ text = he_can_see_it
           /\ applied = 1
           /\ SliceTo(text, 3) = SliceTo(markdown, 3)
           /\ SliceFrom(text, 6) = SliceFrom(markdown, 6)

C7_Witness ==
    /\ pc = "done"
    /\ markdown = he_cau_see_it
    /\ threshold = 8000
    /\ check_word(can)
    /\ ~check_word(cau)
    /\ text = he_can_see_it

----------------------------------------------------------------------------
(* Properties of _merge_suggestions *)

WordsOf(l) == { l[k][1] : k \in 1..Len(l) }

ConfidencesOf(l, w) == { l[k][2] : k \in { j \in 1..Len(l) : l[j][1] = w } }

\* C4: the merged list holds each word of either input exactly once, with the
\* maximum of the confidences given for it, and is sorted by non-increasing
\* confidence
C4_MergeMaximum ==
    pc = "merged" =>
        /\ WordsOf(merged) = WordsOf(list1) \cup WordsOf(list2)
        /\ \A j, k \in 1..Len(merged) : merged[j][1] = merged[k][1] => j = k
        /\ \A k \in 1..Len(merged) :
               LET given == ConfidencesOf(list1 \o list2, merged[k][1])
               IN  /\ merged[k][2] \in given
                   /\ \A c \in given : c <= merged[k][2]
        /\ \A j, k \in 1..Len(merged) : j < k => merged[j][2] >= merged[k][2]

\* a word given in both lists, with the higher confidence in the second, and
\* another word beside it
C4_Witness ==
    /\ pc = "merged"
    /\ Len(merged) = 2
    /\ \E j \in 1..Len(list1), k \in 1..Len(list2) :
           list1[j][1] = list2[k][1] /\ list1[j][2] < list2[k][2]

----------------------------------------------------------------------------
(* Properties of the edit-distance generator *)

\* the scenario: the corpus counts 'the' 500 times and 'teh' twice, the page
\* is the word 'teh', the maximum edit distance is 1 and the threshold 0.7
TehScenario ==
    /\ markdown = teh
    /\ DOMAIN unigrams = {<<the>>, <<teh>>}
    /\ unigrams[<<the>>] = 500
    /\ unigrams[<<teh>>] = 2
    /\ vocabulary = {the, teh}
    /\ find_confusion_patterns(teh) = <<>>
    /\ edit_distance_threshold = 1
    /\ threshold = 7000

\* C6 as stated: in the scenario 'teh' gets the candidate 'the' at distance 1
\* with a confidence above 0.7 and is corrected to 'the'
C6_TehBecomesThe ==
    (pc = "done" /\ TehScenario) =>
        /\ levenshtein_distance(teh, the) = 1
        /\ Len(errors) = 1
        /\ \E k \in 1..Len(errors[1].suggested_corrections) :
               /\ errors[1].suggested_corrections[k][1] = the
               /\ errors[1].suggested_corrections[k][2] > 7000
        /\ text = the

\* C6, amended: in the scenario 'the' is at distance 2 from 'teh', beyond the
\* maximum edit distance 1, so 'teh' gets no candidate and is left unchanged
C6_TehUnchanged ==
    (pc \in {"call", "loop", "done"} /\ TehScenario) =>
        /\ levenshtein_distance(teh, the) = 2
        /\ errors = << NewError(0, teh, 0, <<"unknown_word">>, <<>>) >>
        /\ pc = "done" => (text = teh /\ applied = 0)

C6_Witness ==
    /\ pc = "done"
    /\ TehScenario
    /\ Len(errors) = 1
    /\ errors[1].original_word = teh
    /\ text = teh

----------------------------------------------------------------------------
(* Properties of FrequencyBasedCorrector *)

\* a word of more than one letter that is an upper-case letter followed by
\* lower-case letters, or that is all upper-case
StartsUpperRestLower(w) ==
    Len(w) > 1 /\ IsUpperChar(w[1]) /\ \A i \in 2..Len(w) : IsLowerChar(w[i])

AllUpper(w) == Len(w) > 1 /\ \A i \in 1..Len(w) : IsUpperChar(w[i])

\* C8: for a word that is proper-noun-shaped or all upper-case, correct_word
\* returns (word, 0.0), and correct_text leaves every such occurrence as it
\* is, whatever the table and the threshold
C8_ProperNounsKept ==
    pc = "corrected" =>
        LET before == _tokenize_with_positions(markdown)
            after  == _tokenize_with_positions(text)
        IN  /\ Len(after) = Len(before)
            /\ \A k \in 1..Len(before) :
                   (StartsUpperRestLower(before[k][1]) \/ AllUpper(before[k][1]))
                       => /\ correct_word(before[k][1]) = <<before[k][1], 0>>
                          /\ after[k][1] = before[k][1]

\* the table corrects 'bourne', the text holds 'Bourne', 'bourne' and 'BOURNE'
\* and its 'bourne' has been replaced
C8_Witness ==
    /\ pc = "corrected"
    /\ bourne \in DOMAIN corrections
    /\ markdown = Bourne_bourne_BOURNE
    /\ text = Bourne \o <<" ">> \o borne \o <<" ">> \o BOURNE \o <<".">>

\* the entries the table builder does not pass over
Consumed(c) ==
    /\ c.rare_word # <<>>
    /\ c.suggested_correction # <<>>
    /\ ~StartsUpperRestLower(c.rare_word)
    /\ ~AllUpper(c.rare_word)
    /\ c.rare_count > 0
    /\ c.correct_count > 0

\* C10: the confidence of a consumed entry is base + bonus - penalty, base
\* 0.95 / 0.90 / 0.85 / 0.70 for a ratio correct_count / rare_count >= 50 /
\* >= 20 / >= 10 / below, bonus 0.03 / 0.01 / 0 for edit distance 1 / 2 /
\* other, penalty 0.10 exactly when correct_count < 30
C10_FrequencyConfidence ==
    (pc = "load" /\ load_i > 0 /\ Consumed(error_candidates[load_i])) =>
        LET c == error_candidates[load_i]
            base    == CASE c.correct_count >= 50 * c.rare_count -> 9500
                         [] c.correct_count < 50 * c.rare_count
                            /\ c.correct_count >= 20 * c.rare_count -> 9000
                         [] c.correct_count < 20 * c.rare_count
                            /\ c.correct_count >= 10 * c.rare_count -> 8500
                         [] c.correct_count < 10 * c.rare_count -> 7000
            bonus   == CASE c.edit_distance = 1 -> 300
                         [] c.edit_distance = 2 -> 100
                         [] OTHER -> 0
            penalty == IF c.correct_count < 30 THEN 1000 ELSE 0
        IN  confidence = base + bonus - penalty

\* an entry with ratio 30 and correct count 30: no penalty, 0.90 + 0.03
C10_Witness ==
    /\ pc = "load"
    /\ load_i > 0
    /\ Consumed(error_candidates[load_i])
    /\ error_candidates[load_i].correct_count = 30
    /\ error_candidates[load_i].rare_count = 1
    /\ error_candidates[load_i].edit_distance = 1
    /\ confidence = 9300

----------------------------------------------------------------------------
(* Properties of the confidences *)

InUnitInterval(c) == 0 <= c /\ c <= Scale

SuggestionsInUnitInterval(es) ==
    \A k \in 1..Len(es) :
        \A j \in 1..Len(es[k].suggested_corrections) :
            InUnitInterval(es[k].suggested_corrections[j][2])

----------------------------------------------------------------------------
(* Monotonicity of the confidences *)

\* the edit distances compared with the one of the state
ComparedDistances == 0..3

\* C11: with the other inputs fixed, the confidence of each scorer (the
\* frequency table builder, _calculate_confidence, get_correction) does not
\* decrease when the ratio of the correct word's count to the rare word's
\* count grows, and does not increase when the edit distance grows, for all
\* edit distances >= 0
C11_ConfidenceMonotone ==
    /\ (pc = "load" /\ load_i > 0 /\ ~LeavesEarly(error_candidates[load_i])) =>
           LET c == error_candidates[load_i]
           IN  /\ \A d \in ComparedDistances :
                      /\ d >= c.edit_distance =>
                             FrequencyConfidence(c.rare_count, c.correct_count, d) <= confidence
                      /\ d <= c.edit_distance =>
                             FrequencyConfidence(c.rare_count, c.correct_count, d) >= confidence
               /\ \A rare \in 1..c.rare_count :
                      FrequencyConfidence(rare, c.correct_count, c.edit_distance) >= confidence
               /\ \A more \in 0..30 :
                      FrequencyConfidence(c.rare_count, c.correct_count + more, c.edit_distance)
                          >= confidence
    /\ (pc = "checked" /\ correction[1] # arg_word) =>
           LET edit_dist == levenshtein_distance(str_lower(arg_word), str_lower(correction[1]))
               others    == correction[2] - EditDistanceScore(edit_dist)
           IN  \A d \in ComparedDistances :
                   /\ d >= edit_dist => others + EditDistanceScore(d) <= correction[2]
                   /\ d <= edit_dist => others + EditDistanceScore(d) >= correction[2]
    /\ pc = "call" =>
           \A k \in 1..Len(errors) : \A v \in vocabulary : \A d, e \in ComparedDistances :
               d <= e =>
                   _calculate_confidence(errors[k].original_word, v, <<>>, d)
                       >= _calculate_confidence(errors[k].original_word, v, <<>>, e)

----------------------------------------------------------------------------
(* Properties of DictionaryChecker.check_word *)

\* the word with its trailing punctuation trimmed
Trimmed(w) == str_rstrip(w, TrailingPunctuation)

\* C12 as stated: check_word(word) is true exactly when (1) len(word) < 2,
\* or (2) the trimmed word is, lower-cased, a preserved spelling, or (3) its
\* upper-cased form is a domain term, or (4) it is all digits or all
\* Roman-numeral characters, or (5) the modern dictionary holds it as it is
\* or lower-cased, or (6) the historical dictionary holds it lower-cased
C12_OraclePredicate ==
    pc = "answered" =>
        valid = (\/ Len(arg_word) < 2
                 \/ str_lower(Trimmed(arg_word)) \in preserved_spellings
                 \/ str_upper(Trimmed(arg_word)) \in parliamentary_terms
                 \/ IsNumeral(Trimmed(arg_word))
                 \/ Trimmed(arg_word) \in modern_dict.words
                 \/ str_lower(Trimmed(arg_word)) \in modern_dict.words
                 \/ str_lower(Trimmed(arg_word)) \in historical_words)

\* C12, amended: as above, but (3) the trimmed word itself, in its own case,
\* is a domain term, and (5) the modern dictionary is loaded and holds the
\* trimmed word as it is
C12_OracleExactForms ==
    pc = "answered" =>
        valid = (\/ Len(arg_word) < 2
                 \/ str_lower(Trimmed(arg_word)) \in preserved_spellings
                 \/ Trimmed(arg_word) \in parliamentary_terms
                 \/ IsNumeral(Trimmed(arg_word))
                 \/ (modern_dict.loaded /\ Trimmed(arg_word) \in modern_dict.words)
                 \/ str_lower(Trimmed(arg_word)) \in historical_words)

\* a word the loaded dictionary only knows in lower case is rejected
C12_Witness ==
    /\ pc = "answered"
    /\ modern_dict.loaded
    /\ Len(arg_word) > Len(Trimmed(arg_word))
    /\ Trimmed(arg_word) \notin modern_dict.words
    /\ str_lower(Trimmed(arg_word)) \in modern_dict.words
    /\ valid = FALSE

----------------------------------------------------------------------------
(* Properties of the order of the generators in _process_page *)

\* the errors of the page that METHOD 2 gave confusion suggestions to
ConfusionErrors ==
    { k \in 1..Len(errors) : \E t \in 1..Len(errors[k].error_types) :
                                 errors[k].error_types[t] = "confusion_pattern" }

\* the errors of the page that METHOD 5 went through
EnrichedErrors ==
    { k \in 1..Len(errors) : errors[k].error_types # <<"structural_malformation">> }

\* C13 as stated: the edit-distance generator is invoked for a flagged word
\* only if the confusion-pattern generator produced no suggestion for it, so
\* a word with confusion suggestions has no other suggestion
C13_EditsOnlyWithoutConfusion ==
    pc = "call" =>
        \A k \in ConfusionErrors :
            WordsOf(errors[k].suggested_corrections)
                \subseteq WordsOf(find_confusion_patterns(errors[k].original_word))

\* C13, amended: the confusion-pattern generator runs first and the
\* edit-distance generator is invoked for every flagged word, with or without
\* confusion suggestions; the suggestions of a word hold every confusion
\* candidate, and a candidate of the edit-distance generator whenever the
\* vocabulary has one
C13_EditsForEveryError ==
    pc = "call" =>
        /\ \A k \in ConfusionErrors :
               /\ find_confusion_patterns(errors[k].original_word) # <<>>
               /\ WordsOf(find_confusion_patterns(errors[k].original_word))
                      \subseteq WordsOf(errors[k].suggested_corrections)
        /\ \A k \in EnrichedErrors :
               /\ CandidateWords(errors[k].original_word) # {}
                      => WordsOf(errors[k].suggested_corrections)
                             \cap CandidateWords(errors[k].original_word) # {}
               /\ WordsOf(errors[k].suggested_corrections) \subseteq
                      CandidateWords(errors[k].original_word)
                      \cup WordsOf(find_confusion_patterns(errors[k].original_word))
                      \cup { ent.canonical : ent \in Range(entities) }

\* a word with a confusion suggestion also has a suggestion that only the
\* edit-distance generator gives
C13_Witness ==
    /\ pc = "call"
    /\ \E k \in ConfusionErrors :
           WordsOf(errors[k].suggested_corrections)
               \ WordsOf(find_confusion_patterns(errors[k].original_word)) # {}

----------------------------------------------------------------------------
(* Properties of ConfusionDetector.find_confusion_patterns *)

\* the table as a set of <<wrong, right>>
ConfusionEntries ==
    UNION { { <<character_confusion_pairs[k][1], right>> :
                right \in Range(character_confusion_pairs[k][2]) } :
            k \in 1..Len(character_confusion_pairs) }

\* the case pattern of a string: all upper case, all lower case, or neither
CasePattern(s) ==
    IF str_isupper(s) THEN "upper" ELSE IF str_islower(s) THEN "lower" ELSE "mixed"

\* the pair the claim gives for a table entry
ClaimedPair(w, entry) ==
    << str_replace(w, entry[1], entry[2]),
       IF CasePattern(entry[1]) = CasePattern(entry[2]) THEN 8500 ELSE 7500 >>

\* the table entries that apply to w: the wrong substring occurs in it and the
\* substitution gives another word, which the oracle accepts
Applicable(w) ==
    { entry \in ConfusionEntries :
        /\ Contains(w, entry[1])
        /\ str_replace(w, entry[1], entry[2]) # w
        /\ check_word(str_replace(w, entry[1], entry[2])) }

\* C14: every pair find_confusion_patterns(word) returns is (c, conf) with c
\* the word after the substitution of an occurring wrong substring by one of
\* its right replacements, c # word, c accepted by check_word, conf 0.85 when
\* the case patterns of wrong and right match and 0.75 otherwise; and every
\* table entry whose substitution gives an accepted other word contributes
C14_ConfusionCandidates ==
    pc = "found" =>
        /\ \A i \in 1..Len(confusion_list) :
               \E entry \in Applicable(arg_word) : confusion_list[i] = ClaimedPair(arg_word, entry)
        /\ \A entry \in Applicable(arg_word) :
               \E i \in 1..Len(confusion_list) : confusion_list[i] = ClaimedPair(arg_word, entry)

\* a word that two table entries apply to
C14_Witness ==
    /\ pc = "found"
    /\ Cardinality(Applicable(arg_word)) >= 2
    /\ Len(confusion_list) >= 2
    /\ \A i \in 1..Len(confusion_list) : confusion_list[i][1] # arg_word

----------------------------------------------------------------------------
(* Properties of EditDistanceCorrector.generate_corrections *)

\* the distance generate_corrections compares: both words lower-cased
LowerDistance(w, v) == levenshtein_distance(str_lower(w), str_lower(v))

\* the vocabulary words within the maximum distance of w, w itself left out
WithinDistance(w) ==
    { v \in vocabulary : 0 < LowerDistance(w, v) /\ LowerDistance(w, v) <= edit_distance_threshold }

\* C15: generate_corrections returns at most 5 candidates, each a vocabulary
\* word at a case-insensitive Levenshtein distance d with 0 < d <= maxDistance,
\* in non-increasing order of confidence, and no vocabulary word with a
\* strictly higher confidence than a returned candidate is left out
C15_EditCandidates ==
    pc = "generated" =>
        /\ Len(edit_corrections) <= 5
        /\ \A k \in 1..Len(edit_corrections) : edit_corrections[k][1] \in WithinDistance(arg_word)
        /\ \A j, k \in 1..Len(edit_corrections) :
               j < k => edit_corrections[j][2] >= edit_corrections[k][2]
        /\ \A v \in WithinDistance(arg_word) \ WordsOf(edit_corrections) :
               \A k \in 1..Len(edit_corrections) :
                   _calculate_confidence(arg_word, v, arg_context, LowerDistance(arg_word, v))
                       <= edit_corrections[k][2]

\* six vocabulary words are within the distance, of two confidences, and one
\* of them is left out of the five returned
C15_Witness ==
    /\ pc = "generated"
    /\ Cardinality(WithinDistance(arg_word)) > 5
    /\ Len(edit_corrections) = 5
    /\ edit_corrections[1][2] > edit_corrections[5][2]
    /\ \E i \in 1..Len(arg_word) : IsUpperChar(arg_word[i])

----------------------------------------------------------------------------
(* Properties of the search restriction *)

\* the first characters of the two words, lower-cased, are at most `offset`
\* apart in the alphabet
FirstCharWithin(w, v, offset) ==
    /\ w # <<>>
    /\ v # <<>>
    /\ Abs(OrdOf(ToLowerChar(w[1])) - OrdOf(ToLowerChar(v[1]))) <= offset

\* the lengths of the two words differ by at most max_distance
LengthWithin(w, v, max_distance) ==
    /\ Len(w) - Len(v) <= max_distance
    /\ Len(v) - Len(w) <= max_distance

\* C16 as stated: every candidate the edit-distance generator returns, from
\* find_similar_words or from generate_corrections, starts within a small
\* ordinal offset of the word's first character and has a length within
\* maxDistance of the word's
C16_BothFilters ==
    /\ pc = "similar" =>
           \A k \in 1..Len(similar_words) :
               /\ FirstCharWithin(arg_word, similar_words[k][1], 2)
               /\ LengthWithin(arg_word, similar_words[k][1], 2)
    /\ pc = "generated" =>
           \A k \in 1..Len(edit_corrections) :
               /\ FirstCharWithin(arg_word, edit_corrections[k][1], 2)
               /\ LengthWithin(arg_word, edit_corrections[k][1], edit_distance_threshold)

\* C16, amended: every candidate of find_similar_words satisfies both
\* filters, and is a high-frequency word; every candidate of
\* generate_corrections satisfies the length filter, the only one that
\* generate_corrections applies
C16_LengthFilterOnly ==
    /\ pc = "similar" =>
           \A k \in 1..Len(similar_words) :
               /\ FirstCharWithin(arg_word, similar_words[k][1], 2)
               /\ LengthWithin(arg_word, similar_words[k][1], 2)
               /\ \E w \in DOMAIN word_counts :
                      word_counts[w] >= 10 /\ str_lower(w) = similar_words[k][1]
    /\ pc = "generated" =>
           \A k \in 1..Len(edit_corrections) :
               LengthWithin(arg_word, edit_corrections[k][1], edit_distance_threshold)

\* generate_corrections returns a word whose first character is further than
\* two letters from the input word's
C16_Witness ==
    /\ pc = "generated"
    /\ \E k \in 1..Len(edit_corrections) :
           ~FirstCharWithin(arg_word, edit_corrections[k][1], 2)

----------------------------------------------------------------------------
(* Properties of the two phases of process_file *)

\* the corpus-wide structures hold what all of the pages ps give
BuiltOver(ps) ==
    /\ unigrams = TrainCounter(ps, 1)
    /\ bigrams = TrainCounter(ps, 2)
    /\ trigrams = TrainCounter(ps, 3)
    /\ \A p \in 1..Len(ps) :
           \A w \in Range(NgramTokenize(ps[p])) : <<w>> \in DOMAIN unigrams /\ w \in vocabulary
    /\ vocabulary = { g[1] : g \in DOMAIN unigrams }
    /\ \E canonical_of \in CanonicalChoices(ps) : entities = extract_entities(ps, canonical_of)

----------------------------------------------------------------------------
(* Properties of the aggregate report *)

\* the errors found, had the pages been processed in the order `order` of
\* their indexes: each page gives the errors it gave, one page after another
RECURSIVE InPageOrder(_, _)
InPageOrder(es, order) ==
    IF order = <<>> THEN <<>>
    ELSE SelectSeq(es, LAMBDA e : e.page_index = Head(order)) \o InPageOrder(es, Tail(order))

\* C18: the counts by error type and the reported most-frequent correction
\* pairs with their counts, as listed in the report, are the same for every
\* order in which the pages are processed
C18_OrderIndependent ==
    pc = "complete" =>
        \A order \in Orderings(0..(Len(pages) - 1)) :
            /\ errors_by_type(InPageOrder(all_errors, order)) = stats.errors_by_type
            /\ top_errors(InPageOrder(all_errors, order)) = stats.top_errors

\* the counts alone: every pair has the same count in every order
SameCountsInEveryOrder ==
    pc = "complete" =>
        \A order \in Orderings(0..(Len(pages) - 1)) :
            /\ errors_by_type(InPageOrder(all_errors, order)) = stats.errors_by_type
            /\ Range(top_errors(InPageOrder(all_errors, order))) = Range(stats.top_errors)

----------------------------------------------------------------------------
(* Properties of a page without text *)

\* the page being processed has no text: its 'markdown' is missing or empty
PageWithoutText ==
    /\ pc \in {"call", "loop", "done", "raised"}
    /\ page_i < Len(pages)
    /\ get_markdown(pages[page_i + 1]) = <<>>

\* C19: a page whose 'markdown' is missing or empty is processed as a page
\* with empty text: it gives no error candidate and no correction, no error
\* is raised, and the next page is processed
C19_MalformedUnit ==
    /\ PageWithoutText => (errors = <<>> /\ pc # "raised")
    /\ (PageWithoutText /\ pc = "done") => (applied = 0 /\ text = <<>>)
    /\ pc # "raised"

\* what does hold: such a page gives no error candidate, and a page whose
\* 'markdown' is empty gives no correction and raises nothing
EmptyPageGivesNothing ==
    /\ PageWithoutText => errors = <<>>
    /\ (PageWithoutText /\ pc = "done") => (applied = 0 /\ text = <<>>)
    /\ pc = "raised" => pages[page_i + 1] = NoMarkdown

----------------------------------------------------------------------------
(* Properties of check_word without the modern dictionary *)

\* the modern dictionary is unavailable for the word: none was loaded, or the
\* lookup raises (enchant raises on the empty string)
ModernUnavailable ==
    \/ ~modern_dict.loaded
    \/ str_rstrip(arg_word, TrailingPunctuation) = <<>>

\* C20: when the modern dictionary is unavailable, check_word skips that step
\* and returns what the other checks give: the length
\* test, the preserved spellings, the domain terms, the numerals and the
\* historical dictionary
C20_DegradedOracle ==
    (pc = "answered" /\ ModernUnavailable) =>
        LET clean_word == str_rstrip(arg_word, TrailingPunctuation)
        IN  valid = (\/ Len(arg_word) < 2
                     \/ str_lower(clean_word) \in preserved_spellings
                     \/ clean_word \in parliamentary_terms
                     \/ IsNumeral(clean_word)
                     \/ str_lower(clean_word) \in historical_words)

\* without the modern dictionary a word that it holds is rejected
C20_Witness ==
    /\ pc = "answered"
    /\ ~modern_dict.loaded
    /\ str_rstrip(arg_word, TrailingPunctuation) \in ModernWords
    /\ valid = FALSE

\* the lookup raises and the word is rejected by the remaining checks
LookupRaisesAndRejected ==
    /\ pc = "answered"
    /\ modern_dict.loaded
    /\ Len(arg_word) >= 2
    /\ str_rstrip(arg_word, TrailingPunctuation) = <<>>
    /\ valid = FALSE

-----------------------------------------------------------------------------
(* Properties of setup_historical_dictionary *)

\* C21: the call ends with the dictionary file present; urlopen is called at
\* most once; whenever the download or the parse fails the built-in list is
\* what the file holds at the return, without another attempt; and a file that
\* exists at the call is returned as it was
C21_BootstrapFallback ==
    /\ <>(pc = "returned")
    /\ [](pc = "returned" => dict_file # NoFile)
    /\ [](urlopen_calls <= 1)
    /\ [](pc = "returned" /\ urlopen_calls = 1 /\ try_raises(response)
            => dict_file = fallback_historical_words)
    /\ [][pc = "setup" /\ dict_file # NoFile
            => pc' = "returned" /\ dict_file' = dict_file]_vars

\* the download timed out and the built-in list was written at once
C21_Witness ==
    /\ pc = "returned"
    /\ response.status = "timeout"
    /\ urlopen_calls = 1
    /\ dict_file = fallback_historical_words

-----------------------------------------------------------------------------
(* Properties of the edit-distance functions *)

\* the strings one insertion, deletion or substitution away from s
OneEdit(s) ==
    {SubSeq(s, 1, i - 1) \o SubSeq(s, i + 1, Len(s)) : i \in 1..Len(s)}
    \cup {SubSeq(s, 1, i) \o <<c>> \o SubSeq(s, i + 1, Len(s)) :
            i \in 0..Len(s), c \in LevAlphabet}
    \cup {[s EXCEPT ![i] = c] : i \in 1..Len(s), c \in LevAlphabet}

\* the least k such that s2 is at most k edits away from a string of S,
\* counted from k
RECURSIVE EditsUntil(_, _, _)
EditsUntil(S, s2, k) ==
    IF s2 \in S THEN k
    ELSE EditsUntil(S \cup UNION {OneEdit(s) : s \in S}, s2, k + 1)

\* the least number of edits that turn s1 into s2
MinEdits(s1, s2) == EditsUntil({s1}, s2, 0)

\* s2 is s1 with two adjacent distinct characters exchanged
IsTransposition(s1, s2) ==
    /\ Len(s1) = Len(s2)
    /\ \E i \in 1..(Len(s1) - 1) :
          /\ s1[i] # s1[i + 1]
          /\ s2 = [s1 EXCEPT ![i] = s1[i + 1], ![i + 1] = s1[i]]

\* C22: each of the three functions returns the least number of insertions,
\* deletions and substitutions that turn s1 into s2; the result is the same
\* with the arguments exchanged, is 0 exactly for equal strings, and is 2 for
\* a transposition of two adjacent distinct characters
C22_LevenshteinDistance ==
    pc = "measured" =>
        /\ \A i \in 1..3 : lev_distances[i] = MinEdits(lev_s1, lev_s2)
        /\ lev_distances = <<levenshtein_distance(lev_s2, lev_s1),
                             discover_levenshtein_distance(lev_s2, lev_s1),
                             _edit_distance(lev_s2, lev_s1)>>
        /\ \A i \in 1..3 : lev_distances[i] = 0 <=> lev_s1 = lev_s2
        /\ IsTransposition(lev_s1, lev_s2) => \A i \in 1..3 : lev_distances[i] = 2

\* 'aab' and 'aba': the last two characters exchanged
C22_Witness ==
    /\ pc = "measured"
    /\ lev_s1 = <<"a", "a", "b">>
    /\ lev_s2 = <<"a", "b", "a">>
    /\ lev_distances = <<2, 2, 2>>

-----------------------------------------------------------------------------
(* Properties of the search spaces *)

\* the components of process_file have been built
Built == pc \in {"page", "call", "loop", "done", "complete", "raised"}

\* the number of times a word occurs in the corpus of discover_ocr_errors,
\* whatever its case
RECURSIVE SumCounts(_, _)
SumCounts(counts, ws) ==
    IF ws = {} THEN 0
    ELSE LET w == CHOOSE w \in ws : TRUE
         IN  counts[w] + SumCounts(counts, ws \ {w})

CaseInsensitiveCount(counts, w) ==
    SumCounts(counts, { v \in DOMAIN counts : str_lower(v) = w })

\* every word is in the bucket of its own first character, and in no other
Bucketed(dictionary, index) ==
    /\ \A w \in dictionary : w[1] \in DOMAIN index /\ w \in index[w[1]]
    /\ \A c \in DOMAIN index : \A w \in index[c] : w \in dictionary /\ w[1] = c

\* C23 as stated: every word of either search space occurs MinFrequency
\* times or more, counted without regard to case, and passes check_word, and
\* the space is bucketed by first character
C23_VocabularyBounds ==
    /\ (Built /\ modern_dict.loaded) =>
          \A w \in vocabulary : Get(unigrams, <<w>>) >= MinFrequency /\ check_word(w)
    /\ (pc = "similar" /\ modern_dict.loaded) =>
          /\ \A w \in high_freq_dict :
                CaseInsensitiveCount(word_counts, w) >= MinFrequency /\ check_word(w)
          /\ Bucketed(high_freq_dict, dict_by_first_letter)

\* C23: the dictionary of discover_ocr_errors holds the lower-cased form of
\* exactly the words of which one spelling occurs MinFrequency times or more,
\* so each of its words occurs that often counted without regard to case, and
\* it is bucketed by first character; the vocabulary of the corrector holds
\* every lower-cased word of the corpus
C23_SearchSpacesAsBuilt ==
    /\ Built => vocabulary = { key[1] : key \in DOMAIN unigrams }
    /\ (pc = "page" /\ page_i = 0) =>
          vocabulary = UNION { { str_lower(tok[1]) : tok \in Range(_tokenize_with_positions(t)) } :
                               t \in Range(Markdowns(pages)) }
    /\ pc = "similar" =>
          /\ \A w \in high_freq_dict :
                /\ CaseInsensitiveCount(word_counts, w) >= MinFrequency
                /\ \E v \in DOMAIN word_counts : str_lower(v) = w /\ word_counts[v] >= MinFrequency
          /\ \A v \in DOMAIN word_counts :
                word_counts[v] >= MinFrequency => str_lower(v) \in high_freq_dict
          /\ Bucketed(high_freq_dict, dict_by_first_letter)

\* a frequent capitalised word is in the dictionary in lower case, in the
\* bucket of its lower-case first letter
C23_Witness ==
    /\ pc = "similar"
    /\ word_counts[<<"T","h","e","m">>] = MinFrequency
    /\ <<"t","h","e","m">> \in dict_by_first_letter["t"]
    /\ Cardinality(DOMAIN dict_by_first_letter) >= 2

-----------------------------------------------------------------------------
(* Properties of FrequencyBasedCorrector.correct_word *)

\* correct_word reaches the table and the table has the lower-cased word
FindsCorrection(w) ==
    /\ ~IsCapitalized(w)
    /\ ~IsAllCaps(w)
    /\ str_lower(w) \in DOMAIN corrections

\* the words of the corrected text
Occurrences == { tok[1] : tok \in Range(_tokenize_with_positions(markdown)) }

\* C24: for every occurrence that correct_word finds in the table, the
\* returned word is the stored correction in upper case for an occurrence in
\* upper case, the stored correction with an initial capital for another
\* occurrence that starts with a capital, and the stored correction itself
\* for an occurrence in lower case
C24_PreservesCapitalization ==
    pc = "corrected" =>
        \A w \in Occurrences :
            FindsCorrection(w) =>
                LET stored == corrections[str_lower(w)][1]
                IN  /\ str_isupper(w) => correct_word(w)[1] = str_upper(stored)
                    /\ (~str_isupper(w) /\ IsUpperChar(w[1])) =>
                            correct_word(w)[1] = str_capitalize(stored)
                    /\ str_islower(w) => correct_word(w)[1] = stored

\* the same without the occurrences in upper case
CapitalizedOrUnchanged ==
    pc = "corrected" =>
        \A w \in Occurrences :
            FindsCorrection(w) =>
                LET stored == corrections[str_lower(w)][1]
                IN  /\ IsUpperChar(w[1]) => correct_word(w)[1] = str_capitalize(stored)
                    /\ ~IsUpperChar(w[1]) => correct_word(w)[1] = stored

-----------------------------------------------------------------------------
(* Properties of the candidates of one page *)

HasSuggestion(e) == Len(e.suggested_corrections) >= 1

Disjoint(e1, e2) ==
    Span(e1)[2] <= Span(e2)[1] \/ Span(e2)[2] <= Span(e1)[1]

\* C25: the candidates that _process_page returned for the page and that
\* carry a suggestion have pairwise disjoint spans
C25_DisjointSpans ==
    pc = "call" =>
        \A j, k \in 1..Len(errors) :
            (j # k /\ HasSuggestion(errors[j]) /\ HasSuggestion(errors[k]))
                => Disjoint(errors[j], errors[k])

\* the candidates of the dictionary check alone: one per rejected token
UnknownWordsDisjoint ==
    pc = "call" =>
        \A j, k \in 1..Len(errors) :
            (j # k /\ "unknown_word" \in Range(errors[j].error_types)
                   /\ "unknown_word" \in Range(errors[k].error_types))
                => Disjoint(errors[j], errors[k])

-----------------------------------------------------------------------------
(* Properties of the shipped configuration *)

\* CONFIG['auto_correct_threshold'] = 0.90
AutoCorrectThreshold == 9000

\* CONFIG['edit_distance_threshold']
ShippedEditDistance == 2

ShippedConfiguration ==
    /\ threshold = AutoCorrectThreshold
    /\ edit_distance_threshold = ShippedEditDistance

\* the confidences of all suggestions of the candidates in l
SuggestedConfidences(l) ==
    UNION { { l[k].suggested_corrections[j][2] : j \in 1..Len(l[k].suggested_corrections) } :
            k \in 1..Len(l) }

\* C26: with auto_correct_threshold 0.90 and edit_distance_threshold 2 every
\* suggestion of every candidate has a confidence of at most 0.85, no
\* correction is applied and no step changes the text of a page
C26_ShippedNeverApplies ==
    /\ [](ShippedConfiguration =>
            /\ \A c \in SuggestedConfidences(all_errors) \cup SuggestedConfidences(errors) :
                   c <= ConfCaseMatch /\ c < threshold
            /\ applied = 0
            /\ corrections_applied = 0)
    /\ [][ShippedConfiguration => pages' = pages]_vars

\* a run under the shipped configuration is over: the edit-distance
\* generator gave a candidate the confidence 0.4 + 0.15 + 0.3, and nothing was
\* applied
C26_Witness ==
    /\ pc = "complete"
    /\ ShippedConfiguration
    /\ \E k \in 1..Len(all_errors) :
          /\ all_errors[k].error_types = <<"unknown_word">>
          /\ DictionaryWeight + 1500 + ContextWeight
                \in SuggestedConfidences(<<all_errors[k]>>)
    /\ corrections_applied = 0

\* out from offset p on is src from offset a on in which n of the tokens toks
\* are rewritten and nothing else is: every character between the tokens is
\* there, every token is there as it was or as its result, and a token is
\* rewritten only with a result of confidence >= th that differs from it
RECURSIVE Parsed(_, _, _, _, _, _, _, _)
Parsed(src, out, a, p, toks, results, th, n) ==
    IF toks = <<>> THEN SliceFrom(out, p) = SliceFrom(src, a) /\ n = 0
    ELSE LET w   == Head(toks)[1]
             gap == Slice(src, a, Head(toks)[2])
             q   == p + Len(gap)
             r   == Head(results)
         IN  /\ StartsWithAt(out, gap, p)
             /\ \/ /\ StartsWithAt(out, w, q)
                   /\ Parsed(src, out, Head(toks)[2] + Len(w), q + Len(w),
                             Tail(toks), Tail(results), th, n)
                \/ /\ n > 0
                   /\ r[2] >= th
                   /\ r[1] # w
                   /\ StartsWithAt(out, r[1], q)
                   /\ Parsed(src, out, Head(toks)[2] + Len(w), q + Len(r[1]),
                             Tail(toks), Tail(results), th, n - 1)

FrequencyFrame ==
    pc = "corrected" =>
        LET toks == _tokenize_with_positions(markdown)
        IN  Parsed(markdown, text, 0, 0, toks,
                   [k \in 1..Len(toks) |-> correct_word(toks[k][1])], threshold,
                   SumCounts(corrections_made, DOMAIN corrections_made))

SimpleFrame ==
    pc = "simple corrected" =>
        LET toks == _tokenize_with_positions(markdown)
        IN  Parsed(markdown, text, 0, 0, toks,
                   [k \in 1..Len(toks) |-> simple_correct_word(toks[k][1])], threshold,
                   SumCounts(corrections_made, DOMAIN corrections_made))

\* C27 as stated: correct_text of FrequencyBasedCorrector, of SimpleOCRCorrector
\* and of HybridSpellChecker changes only whole alphabetic tokens: the characters
\* outside the rewritten tokens are in the output unchanged and in order, a token
\* is rewritten only when its confidence is >= the threshold and the correction
\* differs from it, and the number of rewritten tokens is the number of recorded
\* corrections of the call.
C27_AlphabeticTokenFrame ==
    /\ FrequencyFrame
    /\ SimpleFrame
    /\ pc = "hybrid corrected" =>
           LET toks == _tokenize_with_positions(markdown)
           IN  Parsed(markdown, text, 0, 0, toks,
                      [k \in 1..Len(toks) |-> hybrid_correction(toks[k][1])], threshold,
                      Len(corrections_in_text))

\* C27, amended: the same, the tokens of HybridSpellChecker being the runs of
\* letters, hyphens and apostrophes that begin and end with a letter, and its
\* recorded corrections the entries of the list that the call returns.
C27_TokenFrame ==
    /\ FrequencyFrame
    /\ SimpleFrame
    /\ pc = "hybrid corrected" =>
           LET toks == HybridTokensFrom(markdown, 0)
           IN  Parsed(markdown, text, 0, 0, toks,
                      [k \in 1..Len(toks) |-> hybrid_correction(toks[k][1])], threshold,
                      Len(corrections_in_text))

\* 'teh wel-come, teh.' has become 'the welcome, the.' with three recorded corrections
C27_Witness ==
    /\ pc = "hybrid corrected"
    /\ markdown = teh \o <<" ","w","e","l","-","c","o","m","e",","," ">> \o teh \o <<".">>
    /\ text = the \o <<" ","w","e","l","c","o","m","e",","," ">> \o the \o <<".">>
    /\ Len(corrections_in_text) = 3
    /\ threshold = 9000

\* the entries among the first n that can enter the table under the key w:
\* both words given, no proper-noun shape, not all upper case, no zero count,
\* and a confidence that reaches the threshold
QualifyingEntries(w, n) ==
    { k \in 1..n :
        /\ error_candidates[k].rare_word = w
        /\ Consumed(error_candidates[k])
        /\ FrequencyConfidence(error_candidates[k].rare_count,
                               error_candidates[k].correct_count,
                               error_candidates[k].edit_distance) >= confidence_threshold }

EntryConfidence(k) ==
    FrequencyConfidence(error_candidates[k].rare_count, error_candidates[k].correct_count,
                        error_candidates[k].edit_distance)

\* the earliest of the entries of the highest confidence
BestEntry(ks) ==
    CHOOSE k \in ks :
        \A j \in ks : \/ EntryConfidence(j) < EntryConfidence(k)
                       \/ (EntryConfidence(j) = EntryConfidence(k) /\ k <= j)

\* after load_i entries: the keys are the rare words that have a qualifying
\* entry, each with the correction and the confidence of its best entry
TableOfBestEntries ==
    /\ \A w \in DOMAIN corrections : QualifyingEntries(w, load_i) # {}
    /\ \A k \in 1..load_i :
           LET w == error_candidates[k].rare_word
           IN  QualifyingEntries(w, load_i) # {} =>
                   /\ w \in DOMAIN corrections
                   /\ corrections[w] =
                          << error_candidates[BestEntry(QualifyingEntries(w, load_i))].suggested_correction,
                             EntryConfidence(BestEntry(QualifyingEntries(w, load_i))) >>

\* C28 as stated: after _load_error_analysis has consumed any sequence of
\* entries, every entry of the table has confidence >= confidence_threshold,
\* no key is a proper-noun-shaped or an all-upper-case word, each rare word has
\* the correction of its qualifying entry of the highest confidence (the
\* earliest on a tie), and entries with a zero count never enter the table.
C28_TableInvariant ==
    /\ \A w \in DOMAIN corrections :
           /\ corrections[w][2] >= confidence_threshold
           /\ ~StartsUpperRestLower(w)
           /\ ~str_isupper(w)
    /\ TableOfBestEntries

\* C28, amended: the same, the all-upper-case words that are no keys being
\* those of more than one letter.
C28_TableInvariantLongCaps ==
    /\ \A w \in DOMAIN corrections :
           /\ corrections[w][2] >= confidence_threshold
           /\ ~StartsUpperRestLower(w)
           /\ ~(str_isupper(w) /\ Len(w) > 1)
    /\ TableOfBestEntries

\* two entries for 'teh' of confidence 0.98 have been consumed, 'then' after
\* 'the', and the table has 'the'
C28_Witness ==
    /\ pc = "loaded"
    /\ Len(error_candidates) = 2
    /\ error_candidates[1] = Candidate(teh, the, 1, 150, 1)
    /\ error_candidates[2] = Candidate(teh, then, 1, 150, 1)
    /\ confidence_threshold = 9800
    /\ corrections[teh] = <<the, 9800>>

\* a name is assigned the ID that it was assigned before
SameNameSameId ==
    \A i, j \in 1..Len(speeches) :
        speeches[i].speaker = speeches[j].speaker
            => speeches[i].speaker_id = speeches[j].speaker_id

\* every returned ID has its metadata, and the registry entries have IDs of
\* their own, numbered below next_id
ReturnedIdsRegistered ==
    /\ \A i \in 1..Len(speeches) : speeches[i].speaker_id \in DOMAIN speaker_metadata
    /\ \A i, j \in 1..Len(speaker_registry) :
           i # j => speaker_registry[i].speaker_id # speaker_registry[j].speaker_id
    /\ \A i, j \in 1..Len(speaker_registry) :
           i < j => speaker_registry[i].speaker_id[2] < speaker_registry[j].speaker_id[2]
    /\ \A i \in 1..Len(speaker_registry) : speaker_registry[i].speaker_id[2] < next_id

\* C29: after any sequence of assign_speaker_id calls, a name that has been
\* assigned an ID is assigned that same ID on every later call, every returned
\* ID has an entry in speaker_metadata, and no two registry entries created as
\* new speakers share an ID.
C29_SpeakerIdStability ==
    /\ SameNameSameId
    /\ ReturnedIdsRegistered

-----------------------------------------------------------------------------
(* C30: the speeches that speeches_from_pages emits *)

\* what a paragraph is to the loop: a house heading (with its date when it is
\* a house-and-date heading), a debate title, one speaker heading with its
\* content for each speech of the paragraph, or text
ParagraphEvents(p) ==
    LET latin == detect_latin_house_and_date(p)
        chunks == split_paragraph_into_speeches(p)
        event(kind, a, b, c) == [kind |-> kind, a |-> a, b |-> b, c |-> c]
    IN  IF p = <<>> THEN <<>>
        ELSE IF latin # <<NoValue, NoValue, NoValue>>
        THEN <<event("house", latin[1], latin[2], latin[3])>>
        ELSE IF detect_simple_house(p) # NoValue
        THEN <<event("house", detect_simple_house(p), NoValue, NoValue)>>
        ELSE IF is_all_caps_heading(p) THEN <<event("debate", p, NoValue, NoValue)>>
        ELSE IF chunks # <<>>
        THEN [k \in 1..Len(chunks) |-> event("speaker", chunks[k][1], chunks[k][2], NoValue)]
        ELSE IF detect_speaker(p) # NoValue /\ Len(detect_speaker(p)) <= MaxSpeakerLen
        THEN <<event("speaker", detect_speaker(p),
                     IF heading_end(p) >= 0 THEN str_strip(SliceFrom(p, heading_end(p))) ELSE p,
                     NoValue)>>
        ELSE <<event("text", p, NoValue, NoValue)>>

\* ParagraphEvents of the paragraphs of the pages, computed once
ParagraphEventsTable == { <<p, ParagraphEvents(p)>> : p \in SegmentParagraphs }

paragraph_events(p) ==
    IF p \in SegmentParagraphs THEN (CHOOSE e \in ParagraphEventsTable : e[1] = p)[2]
    ELSE ParagraphEvents(p)

RECURSIVE EventsOfParagraphs(_, _)
EventsOfParagraphs(ps, n) ==
    IF n = 0 THEN <<>>
    ELSE EventsOfParagraphs(ps, n - 1) \o paragraph_events(str_strip(ps[n]))

\* the events of the first k pages in sorted order, the k-th being the page
\* the loop is on
RECURSIVE EventsOfPages(_)
EventsOfPages(k) ==
    IF k = 0 THEN <<>>
    ELSE LET ps == IF k = page_k THEN paragraphs
                   ELSE split_markdown_into_paragraphs(pages_sorted[k].markdown)
         IN  EventsOfPages(k - 1)
             \o EventsOfParagraphs(ps, IF k = page_k THEN para_i ELSE Len(ps))

\* the events of the paragraphs the loop has taken so far
SeenEvents == EventsOfPages(page_k)

\* a speaker heading opens a speech; it and a house heading close the open one
ClosesSpeech(e) == e.kind \in {"speaker", "house"}

\* field f of the last event before the h-th that satisfies Test, or None
LastBefore(ev, h, Test(_), f) ==
    LET S == { i \in 1..(h - 1) : Test(ev[i]) }
    IN  IF S = {} THEN NoValue ELSE ev[CHOOSE i \in S : \A j \in S : j <= i][f]

\* the text paragraphs after the h-th event with no speaker, house or
\* house-and-date heading between the h-th event and them
Attached(ev, h) ==
    { j \in (h + 1)..Len(ev) :
        /\ ev[j].kind = "text"
        /\ \A i \in (h + 1)..(j - 1) : ~ClosesSpeech(ev[i]) }

\* the paragraphs of the events js, in order
RECURSIVE ParagraphsOf(_, _, _)
ParagraphsOf(ev, js, j) ==
    IF j > Len(ev) THEN <<>>
    ELSE (IF j \in js THEN <<ev[j].a>> ELSE <<>>) \o ParagraphsOf(ev, js, j + 1)

\* the text of the speech of the speaker heading at h: its content, if any,
\* and its attached paragraphs
TextOfHeading(ev, h) ==
    str_join(<<"\n", "\n">>,
             (IF ev[h].b # <<>> THEN <<ev[h].b>> ELSE <<>>)
             \o ParagraphsOf(ev, Attached(ev, h), h + 1))

\* the speech of the speaker heading at h: the house, date and debate title
\* of the last headings before h, and its text
SpeechOfHeading(ev, h) ==
    LET IsHouse(e) == e.kind = "house"
        IsDated(e) == e.kind = "house" /\ (e.b # NoValue \/ e.c # NoValue)
        IsDebate(e) == e.kind = "debate"
    IN  [house |-> LastBefore(ev, h, IsHouse, "a"),
         date_raw |-> LastBefore(ev, h, IsDated, "b"),
         date_iso |-> LastBefore(ev, h, IsDated, "c"),
         debate_title |-> LastBefore(ev, h, IsDebate, "a"),
         speaker |-> ev[h].a,
         text |-> TextOfHeading(ev, h)]

SameSpeech(speech, expected) ==
    /\ speech.house = expected.house
    /\ speech.date_raw = expected.date_raw
    /\ speech.date_iso = expected.date_iso
    /\ speech.debate_title = expected.debate_title
    /\ speech.speaker = expected.speaker
    /\ speech.text = expected.text

\* the speaker headings whose speech is over (a later heading closed it, or
\* the pages are finished) and has text, in order
EmittedHeadings(ev) ==
    LET over(h) == pc = "segmented" \/ \E i \in (h + 1)..Len(ev) : ClosesSpeech(ev[i])
        emits(h) == /\ ev[h].kind = "speaker"
                    /\ over(h)
                    /\ TextOfHeading(ev, h) # <<>>
    IN  SelectSeq([h \in 1..Len(ev) |-> h], emits)

\* C30: at every point of speeches_from_pages, the emitted speeches are, in
\* order, the speeches of the closed speaker headings that have text: the
\* text of each is its heading's content and the non-heading paragraphs that
\* followed with no house or house-and-date heading (and no other speaker
\* heading) in between, any other non-heading paragraph being dropped; its
\* house, date and debate title are those of the last headings before its
\* speaker heading; no emitted speech has empty text; and the open speech is
\* that of the last speaker heading if no house heading came after it, and
\* there is none otherwise.
C30_SpeechSegmentation ==
    LET ev == SeenEvents
        hs == EmittedHeadings(ev)
        closing == { i \in 1..Len(ev) : ClosesSpeech(ev[i]) }
        last == CHOOSE i \in closing : \A j \in closing : j <= i
    IN  /\ Len(seg_speeches) = Len(hs)
        /\ \A k \in 1..Len(hs) :
              /\ SameSpeech(seg_speeches[k], SpeechOfHeading(ev, hs[k]))
              /\ str_strip(seg_speeches[k].text) # <<>>
        /\ IF closing # {} /\ ev[last].kind = "speaker"
           THEN /\ current_speech # <<>>
                /\ SameSpeech(current_speech[1], SpeechOfHeading(ev, last))
           ELSE current_speech = <<>>

\* a speech was emitted whose house is none although a house heading came
\* after it, and the paragraph after that heading was dropped
C30_Witness ==
    /\ pc = "segmented"
    /\ LET ev == SeenEvents
       IN  /\ Len(ev) = 3
           /\ ev[1].kind = "speaker"
           /\ ev[2].kind = "house"
           /\ ev[3].kind = "text"
           /\ Len(seg_speeches) = 1
           /\ seg_speeches[1].house = NoValue
           /\ seg_speeches[1].text = ev[1].b
           /\ current_house = ev[2].a
           /\ current_speech = <<>>

=============================================================================
